---- MODULE Spec2Model ----
(***************************************************************************)
(* Model of the swarm autoscaler (single-binary shape, src/src).           *)
(*                                                                         *)
(*   Spec        control loop, per-tick evaluation pool, scale queue,      *)
(*               pending map and the scale worker                          *)
(*               (autoscaler_service.py, docker_service.py)                *)
(*   SpecScale   DockerService.scaleService as a function of its inputs    *)
(*   SpecDecide  AutoscalerService.__scale as a function of its inputs     *)
(*   SpecLeader  DockerService.isLeader on the nodes of a cluster          *)
(*   SpecLock    the singleton file lock of main.py among the worker       *)
(*               processes of one node                                     *)
(*                                                                         *)
(* Directions: the code's scaleIn = True adds a replica and is written     *)
(* "up" here, scaleIn = False is "down".                                   *)
(***************************************************************************)
EXTENDS Integers, Sequences, FiniteSets, TLC

\* ----------------------------------------------------------------- bounds
\* Queue(maxsize=1000) of autoscaler_service.py:31, scaled down.
QueueMaxsize == 2
\* ThreadPool(8) of autoscaler_service.py:28, scaled down.
PoolSize == 2
\* Tasks of earlier ticks still waiting in the pool when a tick submits.
MaxPoolBacklog == 0
\* Largest replica count / node count / placement limit drawn as an input.
MaxCount == 5
\* Threads of the discovery pool (DISCOVERY_WORKERS, default 8), scaled down.
DiscoveryWorkers == 2
\* SCALE_COOLDOWN_SEC (default 60), in ticks of the clock.
CooldownSec == 2
\* Ticks the clock makes after the process started.
MaxTime == 4
\* Events the orchestrator's stream yields in one run.
MaxEvents == 3
\* EVENTS_MAX_ROWS (default 10000), scaled down.
MaxRows == 2
\* maxsize of the audit queue (10000), scaled down.
StoreQueueMax == 2
\* _batch_size of the audit writer (64), scaled down.
BatchSize == 2
\* Events passed to add_scale_event in one run.
MaxAdds == 4
\* Changes the orchestrator's state goes through in one run.
MaxChanges == 2

\* ------------------------------------------------------ program constants
DEFAULT_MIN_REPLICAS == 2
DEFAULT_MAX_REPLICAS == 15
DEFAULT_MIN_PERCENTAGE == 25
DEFAULT_MAX_PERCENTAGE == 85
\* while attempts < 3 (docker_service.py:159)
MaxAttempts == 3

Services == {"s1", "s2"}
None == "None"
Directions == {"up", "down"}

\* ------------------------------------------------------------- sequences
RECURSIVE Insert(_, _)
Insert(x, s) ==
  IF s = <<>> THEN <<x>>
  ELSE IF x <= Head(s) THEN <<x>> \o s
  ELSE <<Head(s)>> \o Insert(x, Tail(s))

RECURSIVE Sorted(_)
Sorted(s) == IF s = <<>> THEN <<>> ELSE Insert(Head(s), Sorted(Tail(s)))

RECURSIVE MaxSeq(_)
MaxSeq(s) ==
  IF Len(s) = 1 THEN s[1]
  ELSE LET m == MaxSeq(Tail(s)) IN IF s[1] >= m THEN s[1] ELSE m

\* statistics.median, doubled so that the mean of the two middle values of an
\* even-length sample stays an integer: Median2(s) = 2 * median(s).
Median2(s) ==
  LET t == Sorted(s)
      n == Len(t)
  IN IF n % 2 = 1 THEN 2 * t[(n + 1) \div 2]
     ELSE t[n \div 2] + t[(n \div 2) + 1]

\* ------------------------------------------------ DockerService.scaleService
\* The replica count scaleService asks the orchestrator for, or no write.
\* maxPerNode = 0 stands for a placement limit that is absent or 0 (both skip
\* the capacity test of line 132).
NoWrite == [write |-> FALSE, n |-> 0]

ClampManual(n, minR, maxR) ==
  LET a == IF n < minR THEN minR ELSE n
  IN IF a > maxR THEN maxR ELSE a

ScaleServiceNoBoundsTest(replicated, replicas, minR, maxR, disableManual, dir, maxPerNode, nodeCount) ==
  LET stepped == IF dir = "up" THEN replicas + 1 ELSE replicas - 1
      new == IF disableManual THEN ClampManual(stepped, minR, maxR) ELSE stepped
  IN IF ~replicated THEN NoWrite
     ELSE IF maxPerNode # 0 /\ nodeCount * maxPerNode < stepped THEN NoWrite
     ELSE IF replicas = new THEN NoWrite
     ELSE [write |-> TRUE, n |-> new]

ScaleServiceClampAlways(replicated, replicas, minR, maxR, disableManual, dir, maxPerNode, nodeCount) ==
  LET stepped == IF dir = "up" THEN replicas + 1 ELSE replicas - 1
      new == ClampManual(stepped, minR, maxR)
  IN IF ~replicated THEN NoWrite
     ELSE IF maxPerNode # 0 /\ nodeCount * maxPerNode < stepped THEN NoWrite
     ELSE IF replicas = new THEN NoWrite
     ELSE IF new < minR \/ new > maxR THEN NoWrite
     ELSE [write |-> TRUE, n |-> new]

\* scaleService without the test of the per-node limit (lines 132-134):
ScaleServiceNoCapacityTest(replicated, replicas, minR, maxR, disableManual, dir, maxPerNode, nodeCount) ==
  LET stepped == IF dir = "up" THEN replicas + 1 ELSE replicas - 1
      new == IF disableManual THEN ClampManual(stepped, minR, maxR) ELSE stepped
  IN IF ~replicated THEN NoWrite
     ELSE IF replicas = new THEN NoWrite
     ELSE IF new < minR \/ new > maxR THEN NoWrite
     ELSE [write |-> TRUE, n |-> new]

\* scaleService without the test of the service mode (lines 114-117):
ScaleServiceAnyMode(replicated, replicas, minR, maxR, disableManual, dir, maxPerNode, nodeCount) ==
  LET stepped == IF dir = "up" THEN replicas + 1 ELSE replicas - 1
      new == IF disableManual THEN ClampManual(stepped, minR, maxR) ELSE stepped
  IN IF maxPerNode # 0 /\ nodeCount * maxPerNode < stepped THEN NoWrite
     ELSE IF replicas = new THEN NoWrite
     ELSE IF new < minR \/ new > maxR THEN NoWrite
     ELSE [write |-> TRUE, n |-> new]

ScaleService(replicated, replicas, minR, maxR, disableManual, dir, maxPerNode, nodeCount) ==
  LET stepped == IF dir = "up" THEN replicas + 1 ELSE replicas - 1
      new == IF disableManual THEN ClampManual(stepped, minR, maxR) ELSE stepped
  IN IF ~replicated THEN NoWrite
     ELSE IF maxPerNode # 0 /\ nodeCount * maxPerNode < stepped THEN NoWrite
     ELSE IF replicas = new THEN NoWrite
     ELSE IF new < minR \/ new > maxR THEN NoWrite
     ELSE [write |-> TRUE, n |-> new]

\* ------------------------------------------------ AutoscalerService.__scale
\* The decision of one evaluation: "up" / "down" call _enqueue_scale,
\* "would_up" / "would_down" only log a warning (autoscale=false), "none"
\* logs "not needed to scale". Watermarks are compared doubled, like Median2.
\* __scale with an inclusive comparison on the low side:
DecideWithInclusiveDown(upNeeded, stats, low, mode, replicas, minR, maxR, enabled) ==
  LET downBasis == IF mode = "MEDIAN" THEN Median2(stats) ELSE 2 * MaxSeq(stats)
      up   == upNeeded /\ ~(replicas >= maxR)
      down == (downBasis <= 2 * low) /\ ~(replicas <= minR)
  IN IF up THEN (IF enabled THEN "up" ELSE "would_up")
     ELSE IF down THEN (IF enabled THEN "down" ELSE "would_down")
     ELSE "none"

\* __scale without the autoscale_enabled test of lines 121 and 129:
DecideWithIgnoringEnabled(upNeeded, stats, low, mode, replicas, minR, maxR, enabled) ==
  LET downBasis == IF mode = "MEDIAN" THEN Median2(stats) ELSE 2 * MaxSeq(stats)
      up   == upNeeded /\ ~(replicas >= maxR)
      down == (downBasis < 2 * low) /\ ~(replicas <= minR)
  IN IF up THEN "up" ELSE IF down THEN "down" ELSE "none"

DecideWith(upNeeded, stats, low, mode, replicas, minR, maxR, enabled) ==
  LET downBasis == IF mode = "MEDIAN" THEN Median2(stats) ELSE 2 * MaxSeq(stats)
      up   == upNeeded /\ ~(replicas >= maxR)
      down == (downBasis < 2 * low) /\ ~(replicas <= minR)
  IN IF up THEN (IF enabled THEN "up" ELSE "would_up")
     ELSE IF down THEN (IF enabled THEN "down" ELSE "would_down")
     ELSE "none"

ScaleUpNeededInclusive(stats, high) == Median2(stats) >= 2 * high

ScaleUpNeeded(stats, high) == Median2(stats) > 2 * high

Decide(stats, high, low, mode, replicas, minR, maxR, enabled) ==
  DecideWith(ScaleUpNeeded(stats, high), stats, low, mode, replicas, minR, maxR, enabled)

\* ===================================================================== Spec
\* The decision loop of one autoscaler process.
VARIABLES
  replicas,    \* orchestrator: replica count of each service
  runPc,       \* AutoscalerService.run: "check", "list", "wait", "sleep", "sleep10m"
  tickLeader,  \* the answer of isLeader() in the current tick: "yes", "no",
               \* "raised", or None between ticks
  tickListing, \* how the listing of the current tick ended: "ok", "error" (the
               \* orchestrator failed and the listing answered empty), "raised",
               \* or None before it
  tickErr,     \* a task of the current tick raised and run has not seen it yet
  poolQ,       \* autoscaleServicePool: tasks submitted and not yet taken
  threads,     \* autoscaleServicePool: what each pool thread is doing
  pending,     \* _pendingActions: service -> direction, or None
  scaleQueue,  \* _scaleQueue: sequence of [sid, dir]
  wPc,         \* _ScaleWorker.run: "get", "scale", "write", "finally"
  wItem,       \* the action the worker dequeued
  wNew,        \* the replica count the worker is writing
  wAttempts,   \* scaleService: attempts made so far
  inflight,    \* replica-count writes in flight at the orchestrator: [by, svc]
  dryRun,      \* DRY_RUN of settings.py, fixed for the life of the process
  autoscale,   \* service -> its swarm.autoscale label is "true"
  warned       \* services with a "would scale ... but autoscale=false" warning logged

qvars == <<replicas, runPc, tickLeader, tickListing, tickErr, poolQ, threads,
           pending, scaleQueue, wPc, wItem, wNew, wAttempts, inflight, dryRun, autoscale,
           warned>>

\* The state of the other specifications, one variable each; a specification
\* that does not use one leaves it None.
VARIABLES
  scale,       \* SpecScale: [svc, nodes, call]
  decide,      \* SpecDecide: [in, out]
  cluster,     \* SpecLeader: [nodes, leader, answer]
  lock         \* SpecLock: [holders, pc, got, loop]

\* The variables of the other specifications, as seen from the decision loop.
others == <<scale, decide, cluster, lock>>

OthersIdle == scale = None /\ decide = None /\ cluster = None /\ lock = None

\* The state of the specifications of single components, one variable each.
VARIABLES
  retry,       \* SpecRetry: one scale action in the write loop of scaleService
  fanout,      \* SpecFanout: one stats query sent to all peers
  http,        \* SpecHttp: one request to GET /api/container/stats
  mem          \* SpecMemory: one evaluation on the memory metric

\* The state of the specifications of the services around the decision loop.
VARIABLES
  cool,        \* SpecCooldown: last_scaled_at and the evaluations under way
  watch,       \* SpecWatch: the event stream and what watch_events delivered
  store,       \* SpecStore: the audit store, its queue and its writer
  registry,    \* SpecRegistry: the orchestrator's services and the registry cache
  auto,        \* SpecAutoscale: one __autoscale call and what it collected
  cadvisor     \* SpecCadvisor: one get_metrics_from_cadvisor call

parts == <<cool, watch, store, registry, auto, cadvisor>>

PartsIdle ==
  /\ cool = None /\ watch = None /\ store = None /\ registry = None
  /\ auto = None /\ cadvisor = None

units == <<retry, fanout, http, mem, parts>>

UnitsIdle == retry = None /\ fanout = None /\ http = None /\ mem = None /\ PartsIdle

Threads == 1..PoolSize

\* Labels of the services of the scenario (Spec.Labels of each service).
Labels ==
  [s \in Services |->
     [replicated |-> TRUE, maxPerNode |-> 0,
      min |-> 1, max |-> IF s = "s1" THEN 3 ELSE 2, disableManual |-> (s = "s2"),
      high |-> DEFAULT_MAX_PERCENTAGE, low |-> DEFAULT_MIN_PERCENTAGE,
      mode |-> IF s = "s1" THEN "MEDIAN" ELSE "MAX"]]

\* Samples one evaluation can collect from the peers.
SampleChoices == {<<10, 12>>, <<50>>, <<85, 90>>}

IdleThread == [stage |-> "idle", svc |-> None, reps |-> 0, cur |-> FALSE, dir |-> None]
NoItem == [sid |-> None, dir |-> None]

QState ==
  /\ replicas = [s \in Services |-> 2]
  /\ runPc = "check"
  /\ tickLeader = None
  /\ tickListing = None
  /\ tickErr = FALSE
  /\ poolQ = <<>>
  /\ threads = [t \in Threads |-> IdleThread]
  /\ pending = [s \in Services |-> None]
  /\ scaleQueue = <<>>
  /\ wPc = "get"
  /\ wItem = NoItem
  /\ wNew = 0
  /\ wAttempts = 0
  /\ inflight = {}
  /\ warned = {}

QCommon ==
  /\ QState
  /\ dryRun = FALSE

QInit ==
  /\ autoscale = [s \in Services |-> TRUE]
  /\ QCommon

\* ---- AutoscalerService.run
\* What the gate of line 46 sends the tick to.
LeaderGateOpen(isLeader) == "list"

LeaderGate(isLeader) == IF isLeader THEN "list" ELSE "sleep10m"

\* isLeader() answers from the state of the cluster, an input of the tick.
RunCheckLeader ==
  /\ runPc = "check"
  /\ \E isLeader \in BOOLEAN :
       /\ tickLeader' = (IF isLeader THEN "yes" ELSE "no")
       /\ runPc' = LeaderGate(isLeader)
  /\ UNCHANGED <<replicas, tickListing, tickErr, poolQ, threads, pending, scaleQueue,
                 wPc, wItem, wNew, wAttempts, inflight, dryRun, autoscale, warned, others, units>>

\* isLeader() raises (no manager flagged leader): caught at line 62.
RunCheckLeaderRaises ==
  /\ runPc = "check"
  /\ tickLeader' = "raised"
  /\ runPc' = "sleep"
  /\ UNCHANGED <<replicas, tickListing, tickErr, poolQ, threads, pending, scaleQueue,
                 wPc, wItem, wNew, wAttempts, inflight, dryRun, autoscale, warned, others, units>>

\* The tasks imap_unordered submits for a listing, in listing order.
TasksOf(listing) ==
  [i \in 1..Len(listing) |->
     [svc |-> listing[i], reps |-> replicas[listing[i]], cur |-> TRUE]]

Listings == {<<"s1", "s2">>, <<"s2">>}

\* How the orchestrator answers services.list().
ListOutcomes == {"ok", "error"}

\* The listing that keeps what the orchestrator held before the failure:
GetAllServicesStale(outcome, listing) == listing

\* get_all_services: the services that match, or [] when services.list() fails.
GetAllServices(outcome, listing) == IF outcome = "error" THEN <<>> ELSE listing

RunList ==
  /\ runPc = "list"
  /\ Len(poolQ) <= MaxPoolBacklog
  /\ \E listing \in Listings, outcome \in ListOutcomes :
       /\ poolQ' = poolQ \o TasksOf(GetAllServices(outcome, listing))
       /\ tickListing' = outcome
       /\ runPc' = "wait"
  /\ UNCHANGED <<replicas, tickLeader, tickErr, threads, pending,
                 scaleQueue, wPc, wItem, wNew, wAttempts, inflight, dryRun, autoscale, warned, others, units>>

\* The listing raises: caught at line 62, nothing is submitted.
RunListRaises ==
  /\ runPc = "list"
  /\ runPc' = "sleep"
  /\ tickListing' = "raised"
  /\ UNCHANGED <<replicas, tickLeader, tickErr, poolQ, threads, pending,
                 scaleQueue, wPc, wItem, wNew, wAttempts, inflight, dryRun, autoscale, warned, others, units>>

CurrentTasksLeft ==
  \/ \E i \in 1..Len(poolQ) : poolQ[i].cur
  \/ \E t \in Threads : threads[t].stage # "idle" /\ threads[t].cur

\* list(imap_unordered(...)) returns: every task of the tick is done.
RunWaitDone ==
  /\ runPc = "wait"
  /\ ~tickErr
  /\ ~CurrentTasksLeft
  /\ runPc' = "sleep"
  /\ UNCHANGED <<replicas, tickLeader, tickListing, tickErr, poolQ, threads, pending,
                 scaleQueue, wPc, wItem, wNew, wAttempts, inflight, dryRun, autoscale, warned, others, units>>

\* The re-raised exception ending the evaluations of the tick that are still in
\* the pool:
RunSeesErrorCancelsTasks ==
  /\ runPc = "wait"
  /\ tickErr
  /\ tickErr' = FALSE
  /\ runPc' = "sleep"
  /\ poolQ' = <<>>
  /\ threads' = [t \in Threads |-> IdleThread]
  /\ UNCHANGED <<replicas, tickLeader, tickListing, pending, scaleQueue, wPc, wItem,
                 wNew, wAttempts, inflight, dryRun, autoscale, warned, others, units>>

\* list(imap_unordered(...)) re-raises a task's exception: run stops waiting and
\* the tick's other tasks stay in the pool.
RunSeesError ==
  /\ runPc = "wait"
  /\ tickErr
  /\ tickErr' = FALSE
  /\ runPc' = "sleep"
  /\ poolQ' = [i \in 1..Len(poolQ) |-> [poolQ[i] EXCEPT !.cur = FALSE]]
  /\ threads' = [t \in Threads |-> [threads[t] EXCEPT !.cur = FALSE]]
  /\ UNCHANGED <<replicas, tickLeader, tickListing, pending, scaleQueue, wPc, wItem,
                 wNew, wAttempts, inflight, dryRun, autoscale, warned, others, units>>

RunSleep ==
  /\ runPc \in {"sleep", "sleep10m"}
  /\ runPc' = "check"
  /\ tickLeader' = None
  /\ tickListing' = None
  /\ UNCHANGED <<replicas, tickErr, poolQ, threads, pending,
                 scaleQueue, wPc, wItem, wNew, wAttempts, inflight, dryRun, autoscale, warned, others, units>>

\* ---- autoscaleServicePool: __autoscale, __scale, _enqueue_scale
TaskTake(t) ==
  /\ threads[t].stage = "idle"
  /\ poolQ # <<>>
  /\ threads' = [threads EXCEPT ![t] =
                   [stage |-> "run", svc |-> Head(poolQ).svc, reps |-> Head(poolQ).reps,
                    cur |-> Head(poolQ).cur, dir |-> None]]
  /\ poolQ' = Tail(poolQ)
  /\ UNCHANGED <<replicas, runPc, tickLeader, tickListing, tickErr, pending, scaleQueue,
                 wPc, wItem, wNew, wAttempts, inflight, dryRun, autoscale, warned, others, units>>

\* __autoscale raises before __scale (listing the tasks of the service, resolving
\* the peers): nothing guards it, the exception is the task's result.
TaskRaise(t) ==
  /\ threads[t].stage = "run"
  /\ tickErr' = (tickErr \/ threads[t].cur)
  /\ threads' = [threads EXCEPT ![t] = IdleThread]
  /\ UNCHANGED <<replicas, runPc, tickLeader, tickListing, poolQ, pending, scaleQueue,
                 wPc, wItem, wNew, wAttempts, inflight, dryRun, autoscale, warned, others, units>>

\* No running task of the service, or no peer answered with the metric.
TaskSkip(t) ==
  /\ threads[t].stage = "run"
  /\ threads' = [threads EXCEPT ![t] = IdleThread]
  /\ UNCHANGED <<replicas, runPc, tickLeader, tickListing, tickErr, poolQ, pending,
                 scaleQueue, wPc, wItem, wNew, wAttempts, inflight, dryRun, autoscale, warned, others, units>>

\* What __scale does for a service that needs scaling in direction d.
\* The decision engine writing to the orchestrator itself:
EngineWritesDirectly(t, s, d) ==
  /\ inflight' = inflight \cup {[by |-> "pool", svc |-> s]}
  /\ threads' = [threads EXCEPT ![t] = IdleThread]
  /\ UNCHANGED pending

\* _enqueue_scale up to the release of _pendingLock (lines 139-145).
EnqueueLocked(t, s, d) ==
  /\ IF pending[s] = d
       THEN /\ threads' = [threads EXCEPT ![t] = IdleThread]
            /\ UNCHANGED pending
       ELSE /\ pending' = [pending EXCEPT ![s] = d]
            /\ threads' = [threads EXCEPT ![t] = [IdleThread EXCEPT !.stage = "put", !.svc = s,
                                                     !.cur = threads[t].cur, !.dir = d]]
  /\ UNCHANGED inflight

\* isAutoscaleEnabled(service): the service's autoscale label equals "true".
IsAutoscaleEnabled(s) == autoscale[s]

\* __scale for service s as listed with reps replicas, on the samples drawn;
\* thread t runs it and goes on to put_nowait or returns.
ScaleStep(t, s, reps) ==
  \E stats \in SampleChoices :
    LET L == Labels[s]
        d == Decide(stats, L.high, L.low, L.mode, reps, L.min, L.max,
                    IsAutoscaleEnabled(s))
    IN IF d \in Directions
         THEN EnqueueLocked(t, s, d) /\ UNCHANGED warned
         ELSE /\ threads' = [threads EXCEPT ![t] = IdleThread]
              /\ warned' = (IF d = "none" THEN warned ELSE warned \cup {s})
              /\ UNCHANGED <<pending, inflight>>

TaskDecide(t) ==
  /\ threads[t].stage = "run"
  /\ ScaleStep(t, threads[t].svc, threads[t].reps)
  /\ UNCHANGED <<replicas, runPc, tickLeader, tickListing, tickErr, poolQ, scaleQueue,
                 wPc, wItem, wNew, wAttempts, dryRun, autoscale, others, units>>

\* A pool thread runs __autoscale and __scale on a service object listed now.
\* A tick submits one task per service and waits for all of them, so no other
\* thread is busy with the service (the control loop that lists and submits,
\* and the tasks that outlive their tick, are left to SpecTick).
TaskEvaluate(t, s) ==
  /\ threads[t].stage = "idle"
  /\ \A u \in Threads : threads[u].svc # s
  /\ ScaleStep(t, s, replicas[s])
  /\ UNCHANGED <<replicas, runPc, tickLeader, tickListing, tickErr, poolQ, scaleQueue,
                 wPc, wItem, wNew, wAttempts, dryRun, autoscale, others, units>>

\* _enqueue_scale after the lock: put_nowait (lines 146-151).
TaskPut(t) ==
  /\ threads[t].stage = "put"
  /\ Len(scaleQueue) < QueueMaxsize
  /\ scaleQueue' = Append(scaleQueue, [sid |-> threads[t].svc, dir |-> threads[t].dir])
  /\ threads' = [threads EXCEPT ![t] = IdleThread]
  /\ UNCHANGED <<replicas, runPc, tickLeader, tickListing, tickErr, poolQ, pending,
                 wPc, wItem, wNew, wAttempts, inflight, dryRun, autoscale, warned, others, units>>

\* put_nowait raises Full: the action is dropped with a warning.
TaskPutFull(t) ==
  /\ threads[t].stage = "put"
  /\ Len(scaleQueue) >= QueueMaxsize
  /\ threads' = [threads EXCEPT ![t] = IdleThread]
  /\ UNCHANGED <<replicas, runPc, tickLeader, tickListing, tickErr, poolQ, pending,
                 scaleQueue, wPc, wItem, wNew, wAttempts, inflight, dryRun, autoscale, warned, others, units>>

\* ---- _ScaleWorker.run
WorkerGet ==
  /\ wPc = "get"
  /\ scaleQueue # <<>>
  /\ wItem' = Head(scaleQueue)
  /\ scaleQueue' = Tail(scaleQueue)
  /\ wPc' = "scale"
  /\ UNCHANGED <<replicas, runPc, tickLeader, tickListing, tickErr, poolQ, threads,
                 pending, wNew, wAttempts, inflight, dryRun, autoscale, warned, others, units>>

\* scaleService without the dryRun test of lines 153-154:
WritesNowIgnoringDryRun(write, dry) == write

\* Lines 151-154: a change that passed the tests is written unless dryRun.
WritesNow(write, dry) == write /\ ~dry

\* services.get(service_id), then scaleService up to its first write attempt.
WorkerScale ==
  /\ wPc = "scale"
  /\ LET L == Labels[wItem.sid]
         r == ScaleService(L.replicated, replicas[wItem.sid], L.min, L.max,
                           L.disableManual, wItem.dir, L.maxPerNode, 1)
     IN IF WritesNow(r.write, dryRun)
          THEN /\ wPc' = "write"
               /\ wNew' = r.n
               /\ wAttempts' = 0
               /\ inflight' = inflight \cup {[by |-> "worker", svc |-> wItem.sid]}
          ELSE /\ wPc' = "finally"
               /\ UNCHANGED <<wNew, wAttempts, inflight>>
  /\ UNCHANGED <<replicas, runPc, tickLeader, tickListing, tickErr, poolQ, threads,
                 pending, scaleQueue, wItem, dryRun, autoscale, warned, others, units>>

\* services.get(service_id) raises (the service is gone): caught at line 173.
WorkerScaleRaises ==
  /\ wPc = "scale"
  /\ wPc' = "finally"
  /\ UNCHANGED <<replicas, runPc, tickLeader, tickListing, tickErr, poolQ, threads,
                 pending, scaleQueue, wItem, wNew, wAttempts, inflight, dryRun, autoscale, warned, others, units>>

\* fresh_service.scale(newReplicasCount) succeeds.
WorkerWriteOk ==
  /\ wPc = "write"
  /\ replicas' = [replicas EXCEPT ![wItem.sid] = wNew]
  /\ inflight' = inflight \ {[by |-> "worker", svc |-> wItem.sid]}
  /\ wPc' = "finally"
  /\ UNCHANGED <<runPc, tickLeader, tickListing, tickErr, poolQ, threads, pending,
                 scaleQueue, wItem, wNew, wAttempts, dryRun, autoscale, warned, others, units>>

\* APIError "update out of sequence" / "update in progress": next attempt, or
\* the last error is raised after the third.
WorkerWriteConflict ==
  /\ wPc = "write"
  /\ wAttempts' = wAttempts + 1
  /\ IF wAttempts + 1 < MaxAttempts
       THEN UNCHANGED <<wPc, inflight>>
       ELSE /\ wPc' = "finally"
            /\ inflight' = inflight \ {[by |-> "worker", svc |-> wItem.sid]}
  /\ UNCHANGED <<replicas, runPc, tickLeader, tickListing, tickErr, poolQ, threads,
                 pending, scaleQueue, wItem, wNew, dryRun, autoscale, warned, others, units>>

\* Any other APIError is raised at once.
WorkerWriteError ==
  /\ wPc = "write"
  /\ wPc' = "finally"
  /\ inflight' = inflight \ {[by |-> "worker", svc |-> wItem.sid]}
  /\ UNCHANGED <<replicas, runPc, tickLeader, tickListing, tickErr, poolQ, threads,
                 pending, scaleQueue, wItem, wNew, wAttempts, dryRun, autoscale, warned, others, units>>

\* The worker going back to get() without touching _pendingActions:
WorkerFinallyKeepsPending ==
  /\ wPc = "finally"
  /\ wPc' = "get"
  /\ wItem' = NoItem
  /\ wNew' = 0
  /\ wAttempts' = 0
  /\ UNCHANGED <<replicas, runPc, tickLeader, tickListing, tickErr, poolQ, threads,
                 pending, scaleQueue, inflight, dryRun, autoscale, warned, others, units>>

\* finally: the pending entry of the service is deleted.
WorkerFinally ==
  /\ wPc = "finally"
  /\ pending' = [pending EXCEPT ![wItem.sid] = None]
  /\ wPc' = "get"
  /\ wItem' = NoItem
  /\ wNew' = 0
  /\ wAttempts' = 0
  /\ UNCHANGED <<replicas, runPc, tickLeader, tickListing, tickErr, poolQ, threads,
                 scaleQueue, inflight, dryRun, autoscale, warned, others, units>>

PoolNext ==
  \/ \E t \in Threads : TaskRaise(t)
  \/ \E t \in Threads : TaskSkip(t)
  \/ \E t \in Threads : TaskDecide(t)
  \/ \E t \in Threads : TaskPut(t)
  \/ \E t \in Threads : TaskPutFull(t)

WorkerNext ==
  \/ WorkerGet
  \/ WorkerScale
  \/ WorkerScaleRaises
  \/ WorkerWriteOk
  \/ WorkerWriteConflict
  \/ WorkerWriteError
  \/ WorkerFinally

RunNext ==
  \/ RunCheckLeader
  \/ RunCheckLeaderRaises
  \/ RunList
  \/ RunListRaises
  \/ RunWaitDone
  \/ RunSeesError
  \/ RunSleep
  \/ \E t \in Threads : TaskTake(t)

vars == <<qvars, scale, decide, cluster, lock, units>>

\* Spec: the scale queue between the evaluation pool and the scale worker.
Init == QInit /\ OthersIdle /\ UnitsIdle

Next ==
  \/ \E t \in Threads, s \in Services : TaskEvaluate(t, s)
  \/ \E t \in Threads : TaskPut(t)
  \/ \E t \in Threads : TaskPutFull(t)
  \/ WorkerNext

Spec == Init /\ [][Next]_vars

\* SpecFair: Spec with the scheduling the threads give: the worker thread runs
\* on (get() with a timeout in a loop, a bounded retry), and a pool thread
\* that left _pendingLock goes on to put_nowait, which does not block.
SpecFair ==
  /\ Init /\ [][Next]_vars
  /\ WF_vars(WorkerNext)
  /\ \A t \in Threads : WF_vars(TaskPut(t) \/ TaskPutFull(t))

\* SpecTick: the control loop, its evaluation pool and the worker, in a cluster
\* where only s1 has autoscale enabled (s2 carries the label with "false").
TickInit ==
  /\ QCommon
  /\ autoscale = [s \in Services |-> s = "s1"]
  /\ OthersIdle /\ UnitsIdle

TickNext ==
  \/ RunNext
  \/ PoolNext
  \/ WorkerNext

SpecTick == TickInit /\ [][TickNext]_vars

\* ================================================================== SpecDry
\* The scale queue and the worker of a process started with any value of the
\* AUTOSCALER_DRYRUN environment variable.
EnvValues == {None, "1", "TRUE", " yes ", "on", "0", "False", "no", "off", "", "enabled"}

\* str(val).strip().lower() on the values above.
StripLower(v) ==
  CASE v = "TRUE" -> "true"
    [] v = " yes " -> "yes"
    [] v = "False" -> "false"
    [] OTHER -> v

\* settings._env_bool(name, default) for the value val of the variable.
EnvBool(val, default) ==
  IF val = None THEN default
  ELSE IF StripLower(val) \in {"1", "true", "yes", "on"} THEN TRUE
  ELSE IF StripLower(val) \in {"0", "false", "no", "off", ""} THEN FALSE
  ELSE default

DryInit ==
  /\ QState
  /\ \E v \in EnvValues : dryRun = EnvBool(v, FALSE)
  /\ autoscale = [s \in Services |-> TRUE]
  /\ OthersIdle /\ UnitsIdle

SpecDry == DryInit /\ [][Next]_vars

\* ================================================================ SpecScale
\* One service in the orchestrator, scaled by scaleService and by hand.
Counts == 0..MaxCount

\* The action of the service in the scale queue, with what the decision engine
\* saw of the service when it enqueued it; state is "none", "queued" or "done".
NoQueued == [state |-> "none", dir |-> None, seen |-> [replicas |-> 0, min |-> 0, max |-> 0]]

ScaleInit ==
  /\ \E rep \in BOOLEAN, r \in Counts, lo \in Counts, hi \in Counts,
        dm \in BOOLEAN, mpn \in 0..1, nc \in 1..2 :
       scale = [svc |-> [replicated |-> rep, replicas |-> r, min |-> lo, max |-> hi,
                         disableManual |-> dm, maxPerNode |-> mpn],
                nodes |-> nc,
                call |-> [done |-> FALSE, dir |-> None, wanted |-> None, before |-> 0,
                          res |-> NoWrite],
                queued |-> NoQueued, pending |-> None]
  /\ QInit /\ decide = None /\ cluster = None /\ lock = None /\ UnitsIdle

\* The worker runs scaleService(service, dir) on the service as it is now; a
\* write sets the replica count at the orchestrator.
ScaleCall(dir) ==
  LET v == scale.svc
      r == ScaleService(v.replicated, v.replicas, v.min, v.max, v.disableManual,
                        dir, v.maxPerNode, scale.nodes)
  IN /\ scale' = [scale EXCEPT
                    !.call = [done |-> TRUE, dir |-> dir, wanted |-> None,
                              before |-> v.replicas, res |-> r],
                    !.svc.replicas = IF r.write THEN r.n ELSE @]
     /\ UNCHANGED <<qvars, decide, cluster, lock, units>>

\* An operator sets the replica count by hand (docker service scale).
ManualScale(n) ==
  /\ scale.svc.replicas # n
  /\ scale' = [scale EXCEPT !.svc.replicas = n,
                            !.call = [done |-> FALSE, dir |-> None, wanted |-> None,
                                      before |-> 0, res |-> NoWrite]]
  /\ UNCHANGED <<qvars, decide, cluster, lock, units>>

\* The samples one evaluation collects: below, between and above the default
\* watermarks.
EngineSamples == {<<10>>, <<50>>, <<90>>}

\* What the metric alone asks for in __scale, before the replica bounds are
\* looked at: "up" above the high watermark, "down" below the low one.
Wanted(stats, high, low, mode) ==
  LET downBasis == IF mode = "MEDIAN" THEN Median2(stats) ELSE 2 * MaxSeq(stats)
  IN IF ScaleUpNeeded(stats, high) THEN "up"
     ELSE IF downBasis < 2 * low THEN "down"
     ELSE "none"

\* One evaluation of the service by the engine, from __scale to the worker's
\* scaleService: __scale decides on the replica count and the bounds, and only
\* an "up" / "down" decision reaches scaleService. A service without running
\* tasks has no containers and is not evaluated.
EngineRound(stats) ==
  LET v == scale.svc
      d == Decide(stats, DEFAULT_MAX_PERCENTAGE, DEFAULT_MIN_PERCENTAGE, "MEDIAN",
                  v.replicas, v.min, v.max, TRUE)
      r == IF d \in Directions
             THEN ScaleService(v.replicated, v.replicas, v.min, v.max, v.disableManual,
                               d, v.maxPerNode, scale.nodes)
             ELSE NoWrite
  IN /\ v.replicas >= 1
     /\ scale' = [scale EXCEPT
                    !.call = [done |-> TRUE,
                              dir |-> IF d \in Directions THEN d ELSE None,
                              wanted |-> Wanted(stats, DEFAULT_MAX_PERCENTAGE,
                                                DEFAULT_MIN_PERCENTAGE, "MEDIAN"),
                              before |-> v.replicas, res |-> r],
                    !.svc.replicas = IF r.write THEN r.n ELSE @]
     /\ UNCHANGED <<qvars, decide, cluster, lock, units>>

\* __scale on the service as listed now, up to _enqueue_scale: a service that
\* is not replicated counts as having 0 replicas (lines 102-103); a direction
\* already pending is a duplicate; the tuple put in the queue holds the
\* service id and the direction.
EnqueueScale(stats) ==
  LET v == scale.svc
      reps == IF v.replicated THEN v.replicas ELSE 0
      d == Decide(stats, DEFAULT_MAX_PERCENTAGE, DEFAULT_MIN_PERCENTAGE, "MEDIAN",
                  reps, v.min, v.max, TRUE)
  IN /\ scale.queued.state # "queued"
     /\ v.replicated => v.replicas >= 1
     /\ d \in Directions
     /\ scale.pending # d
     /\ scale' = [scale EXCEPT
                    !.pending = d,
                    !.queued = [state |-> "queued", dir |-> d,
                                seen |-> [replicas |-> reps, min |-> v.min,
                                          max |-> v.max]]]
     /\ UNCHANGED <<qvars, decide, cluster, lock, units>>

\* The min / max labels of the service are changed (docker service update).
Relabel(lo, hi) ==
  /\ <<lo, hi>> # <<scale.svc.min, scale.svc.max>>
  /\ scale' = [scale EXCEPT !.svc.min = lo, !.svc.max = hi,
                            !.call = [done |-> FALSE, dir |-> None, wanted |-> None,
                                      before |-> 0, res |-> NoWrite]]
  /\ UNCHANGED <<qvars, decide, cluster, lock, units>>

\* The worker acting on the service object the engine held when it decided:
ServiceSeenByEngine(current, seen) == seen

\* _ScaleWorker.run line 171: services.get(service_id) before scaleService,
\* which reads the replica count and the labels from that object.
ServiceRead(current, seen) == current

\* The worker takes the queued action, runs scaleService and clears the
\* pending entry of the service (finally).
WorkerRun ==
  LET v == scale.svc
      q == scale.queued
      o == ServiceRead([replicas |-> v.replicas, min |-> v.min, max |-> v.max], q.seen)
      r == ScaleService(v.replicated, o.replicas, o.min, o.max, v.disableManual,
                        q.dir, v.maxPerNode, scale.nodes)
  IN /\ q.state = "queued"
     /\ scale' = [scale EXCEPT
                    !.queued.state = "done",
                    !.pending = None,
                    !.call = [done |-> TRUE, dir |-> q.dir, wanted |-> None,
                              before |-> v.replicas, res |-> r],
                    !.svc.replicas = IF r.write THEN r.n ELSE @]
     /\ UNCHANGED <<qvars, decide, cluster, lock, units>>

ScaleNext ==
  \/ \E dir \in Directions : ScaleCall(dir)
  \/ \E n \in Counts : ManualScale(n)
  \/ \E stats \in EngineSamples : EngineRound(stats)

SpecScale == ScaleInit /\ [][ScaleNext]_vars

\* SpecRefresh: one replicated or global service with an action that waits in
\* the scale queue while the service is scaled and relabelled by hand.
LowBounds == {1, 2}
HighBounds == {3, 4}

RefreshInit ==
  /\ \E rep \in BOOLEAN, r \in Counts, lo \in LowBounds, hi \in HighBounds,
        dm \in BOOLEAN :
       scale = [svc |-> [replicated |-> rep, replicas |-> r, min |-> lo, max |-> hi,
                         disableManual |-> dm, maxPerNode |-> 0],
                nodes |-> 1,
                call |-> [done |-> FALSE, dir |-> None, wanted |-> None, before |-> 0,
                          res |-> NoWrite],
                queued |-> NoQueued, pending |-> None]
  /\ QInit /\ decide = None /\ cluster = None /\ lock = None /\ UnitsIdle

RefreshNext ==
  \/ \E stats \in EngineSamples : EnqueueScale(stats)
  \/ \E n \in Counts : ManualScale(n)
  \/ \E lo \in LowBounds, hi \in HighBounds : Relabel(lo, hi)
  \/ WorkerRun

SpecRefresh == RefreshInit /\ [][RefreshNext]_vars

\* =============================================================== SpecDecide
\* One evaluation of __scale on drawn samples, watermarks and replica bounds.
SampleValues == {10, 25, 84, 85, 86}

DecideStats ==
  {<<a>> : a \in SampleValues} \cup {<<a, b>> : a \in SampleValues, b \in SampleValues}
    \cup {<<10, 85, 86>>, <<85, 85, 10>>, <<86, 10, 90>>}

Watermarks == {[low |-> DEFAULT_MIN_PERCENTAGE, high |-> DEFAULT_MAX_PERCENTAGE],
               [low |-> 84, high |-> 86], [low |-> 85, high |-> 25],
               [low |-> 85, high |-> 85]}

DecideInit ==
  /\ \E st \in DecideStats, w \in Watermarks, m \in {"MEDIAN", "MAX"},
        r \in Counts, lo \in Counts, hi \in Counts, en \in BOOLEAN :
       decide = [in |-> [stats |-> st, high |-> w.high, low |-> w.low, mode |-> m,
                         replicas |-> r, min |-> lo, max |-> hi, enabled |-> en],
                 out |-> None]
  /\ QInit /\ scale = None /\ cluster = None /\ lock = None /\ UnitsIdle

Evaluate ==
  /\ decide.out = None
  /\ decide' = [decide EXCEPT !.out =
                  Decide(decide.in.stats, decide.in.high, decide.in.low, decide.in.mode,
                         decide.in.replicas, decide.in.min, decide.in.max,
                         decide.in.enabled)]
  /\ UNCHANGED <<qvars, scale, cluster, lock, units>>

DecideNext == Evaluate

SpecDecide == DecideInit /\ [][DecideNext]_vars

\* =============================================================== SpecLeader
\* The nodes of a swarm, an autoscaler instance on each, and isLeader().
Nodes == {"n1", "n2", "n3"}

\* Node addresses, as the character sequences startswith compares.
NodeAddrs == {<<"1">>, <<"1", "0">>, <<"2">>, <<"2", "1">>}

\* ManagerStatus.Addr of a manager: its node address and the swarm port.
ManagerAddr(n) == cluster.nodes[n].addr \o <<":">> \o <<"2", "3", "7", "7">>

StartsWith(a, b) == Len(b) <= Len(a) /\ SubSeq(a, 1, Len(b)) = b

LeaderInit ==
  /\ \E mgrs \in (SUBSET Nodes) \ {{}}, addr \in [Nodes -> NodeAddrs] :
       /\ \A a, b \in Nodes : a # b => addr[a] # addr[b]
       /\ \E ldr \in mgrs \cup {None} :
            cluster = [nodes |-> [n \in Nodes |-> [manager |-> n \in mgrs, addr |-> addr[n]]],
                       leader |-> ldr,
                       answer |-> [n \in Nodes |-> None]]
  /\ QInit /\ scale = None /\ decide = None /\ lock = None /\ UnitsIdle

\* The comparison of line 52: leader's ManagerStatus.Addr startswith NodeAddr.
AddrMatches(leaderAddr, nodeAddr) == StartsWith(leaderAddr, nodeAddr)

\* DockerService.isLeader on node n: "true", "false", or "raised" when no
\* manager is flagged Leader (the [0] of line 51).
IsLeader(n) ==
  IF ~cluster.nodes[n].manager THEN "false"
  ELSE IF cluster.leader = None THEN "raised"
  ELSE IF AddrMatches(ManagerAddr(cluster.leader), cluster.nodes[n].addr) THEN "true"
  ELSE "false"

CallIsLeader(n) ==
  /\ cluster' = [cluster EXCEPT !.answer[n] = IsLeader(n)]
  /\ UNCHANGED <<qvars, scale, decide, lock, units>>

\* The managers elect another leader, or lose the leader; the answers given
\* for the earlier state of the cluster are forgotten.
ElectLeader(m) ==
  /\ m # cluster.leader
  /\ IF m = None THEN TRUE ELSE cluster.nodes[m].manager
  /\ cluster' = [cluster EXCEPT !.leader = m, !.answer = [n \in Nodes |-> None]]
  /\ UNCHANGED <<qvars, scale, decide, lock, units>>

LeaderNext ==
  \/ \E n \in Nodes : CallIsLeader(n)
  \/ \E m \in Nodes \cup {None} : ElectLeader(m)

SpecLeader == LeaderInit /\ [][LeaderNext]_vars

\* ================================================================= SpecLock
\* The worker processes of one node, each importing main.py.
Procs == {"w1", "w2", "w3"}

LockInit ==
  /\ lock = [holders |-> {}, pc |-> [p \in Procs |-> "boot"],
             got |-> [p \in Procs |-> None], loop |-> [p \in Procs |-> FALSE]]
  /\ QInit /\ scale = None /\ decide = None /\ cluster = None /\ UnitsIdle

\* flock(fd, LOCK_EX | LOCK_NB) on a fresh open file description succeeds iff
\* no open file description holds a lock on the file.
FlockAlwaysGranted(holders) == TRUE

FlockExNb(holders) == holders = {}

\* Lines 74-82: the lock is acquired and the thread started ...
BootAcquire(p, started) ==
  /\ lock.pc[p] = "boot"
  /\ FlockExNb(lock.holders)
  /\ lock' = [lock EXCEPT !.holders = @ \cup {p}, !.pc[p] = "imported",
                          !.got[p] = "acquired", !.loop[p] = started]
  /\ UNCHANGED <<qvars, scale, decide, cluster, units>>

\* ... or the attempt fails (BlockingIOError, or any error of open or flock)
\* and _acquire_singleton_lock returns None.
BootNoLock(p) ==
  /\ lock.pc[p] = "boot"
  /\ lock' = [lock EXCEPT !.pc[p] = "imported", !.got[p] = "failed"]
  /\ UNCHANGED <<qvars, scale, decide, cluster, units>>

\* Imported by the server (Gunicorn): the process serves the routes.
Serve(p) ==
  /\ lock.pc[p] = "imported"
  /\ lock' = [lock EXCEPT !.pc[p] = "serving"]
  /\ UNCHANGED <<qvars, scale, decide, cluster, units>>

\* Run directly: the __main__ block tries the lock again on a new descriptor
\* (lines 84-92), starts the thread if it gets it, then serves.
MainAcquire(p) ==
  /\ lock.pc[p] = "imported"
  /\ IF FlockExNb(lock.holders)
       THEN lock' = [lock EXCEPT !.holders = @ \cup {p}, !.pc[p] = "serving",
                                 !.got[p] = "acquired", !.loop[p] = TRUE]
       ELSE lock' = [lock EXCEPT !.pc[p] = "serving"]
  /\ UNCHANGED <<qvars, scale, decide, cluster, units>>

\* Process exit: the atexit handler releases the lock (lines 48-65) ...
ExitRelease(p) ==
  /\ lock.pc[p] = "serving"
  /\ lock' = [lock EXCEPT !.holders = @ \ {p}, !.pc[p] = "exiting"]
  /\ UNCHANGED <<qvars, scale, decide, cluster, units>>

\* ... and the daemon thread ends with the process.
ExitDone(p) ==
  /\ lock.pc[p] = "exiting"
  /\ lock' = [lock EXCEPT !.pc[p] = "exited", !.loop[p] = FALSE]
  /\ UNCHANGED <<qvars, scale, decide, cluster, units>>

\* The process is killed: the kernel drops its lock with its descriptors.
Kill(p) ==
  /\ lock.pc[p] \in {"imported", "serving"}
  /\ lock' = [lock EXCEPT !.holders = @ \ {p}, !.pc[p] = "exited", !.loop[p] = FALSE]
  /\ UNCHANGED <<qvars, scale, decide, cluster, units>>

\* The server starts a new worker in place of one that is gone.
Respawn(p) ==
  /\ lock.pc[p] = "exited"
  /\ lock' = [lock EXCEPT !.pc[p] = "boot", !.got[p] = None]
  /\ UNCHANGED <<qvars, scale, decide, cluster, units>>

LockNext ==
  \/ \E p \in Procs, started \in BOOLEAN : BootAcquire(p, started)
  \/ \E p \in Procs : BootNoLock(p)
  \/ \E p \in Procs : Serve(p)
  \/ \E p \in Procs : MainAcquire(p)
  \/ \E p \in Procs : ExitRelease(p)
  \/ \E p \in Procs : ExitDone(p)
  \/ \E p \in Procs : Kill(p)
  \/ \E p \in Procs : Respawn(p)

SpecLock == LockInit /\ [][LockNext]_vars

\* ================================================================ SpecRetry
\* One scale action inside the write loop of scaleService (lines 156-176) and
\* the worker's handling of its outcome.
ApiErrors == {"out_of_sequence", "in_progress", "other_api"}

\* The retry test of line 168, on any APIError:
IsTransientAny(e) == e \in ApiErrors

\* Line 168: the message holds "update out of sequence" or "update in progress".
IsTransient(e) == e \in {"out_of_sequence", "in_progress"}

NewJob(r, n) ==
  [pc |-> "loop", replicas |-> r, n |-> n, attempts |-> 0, fetches |-> 0,
   writes |-> 0, lastErr |-> None, raised |-> None, events |-> 0]

RetryInit ==
  /\ \E r \in Counts, n \in Counts : n # r /\ retry = NewJob(r, n)
  /\ QInit /\ OthersIdle /\ fanout = None /\ http = None /\ mem = None /\ PartsIdle

RetryFrame == UNCHANGED <<qvars, others, fanout, http, mem, parts>>

\* services.get and scale both succeed: scaleService returns (line 164).
AttemptOk ==
  /\ retry.pc = "loop"
  /\ retry' = [retry EXCEPT !.fetches = @ + 1, !.writes = @ + 1,
                            !.replicas = retry.n, !.pc = "returned"]
  /\ RetryFrame

\* services.get (stage "get") or scale (stage "scale") raises APIError e:
\* lines 165-173, and lines 174-176 once the loop is left.
AttemptApiError(e, stage) ==
  /\ retry.pc = "loop"
  /\ LET again == IsTransient(e)
         a == IF again THEN retry.attempts + 1 ELSE retry.attempts
     IN retry' = [retry EXCEPT
                    !.fetches = @ + 1,
                    !.writes = IF stage = "scale" THEN @ + 1 ELSE @,
                    !.lastErr = e,
                    !.attempts = a,
                    !.pc = IF again /\ a < MaxAttempts THEN "loop" ELSE "raised",
                    !.raised = IF again /\ a < MaxAttempts THEN None ELSE e]
  /\ RetryFrame

\* An exception that is no APIError (connection lost) passes through the loop.
AttemptException(stage) ==
  /\ retry.pc = "loop"
  /\ retry' = [retry EXCEPT !.fetches = @ + 1,
                            !.writes = IF stage = "scale" THEN @ + 1 ELSE @,
                            !.pc = "raised", !.raised = "exception"]
  /\ RetryFrame

\* Audit events made for the outcome of a scale action, one per attempt:
AuditEventsPerAttempt(pc, writes) == IF pc = "returned" THEN writes ELSE 0

\* Audit events made for the outcome of a scale action: one on success.
AuditEventsOn(pc, writes) == IF pc = "returned" THEN 1 ELSE 0

\* _ScaleWorker.run after scaleService returned or raised (lines 172-180).
WorkerAfterScale ==
  /\ retry.pc \in {"returned", "raised"}
  /\ retry' = [retry EXCEPT !.events = @ + AuditEventsOn(retry.pc, retry.writes),
                            !.pc = IF retry.pc = "returned" THEN "done_ok" ELSE "done_failed"]
  /\ RetryFrame

\* The worker takes the next action of the service.
NextScaleAction(n) ==
  /\ retry.pc \in {"done_ok", "done_failed"}
  /\ n # retry.replicas
  /\ retry' = NewJob(retry.replicas, n)
  /\ RetryFrame

RetryNext ==
  \/ AttemptOk
  \/ \E e \in ApiErrors, stage \in {"get", "scale"} : AttemptApiError(e, stage)
  \/ \E stage \in {"get", "scale"} : AttemptException(stage)
  \/ WorkerAfterScale
  \/ \E n \in Counts : NextScaleAction(n)

SpecRetry == RetryInit /\ [][RetryNext]_vars

\* =============================================================== SpecFanout
\* One Discovery.getContainerStats query: __sendToAll over the cluster hosts.
Peers == {"p1", "p2", "p3"}

\* The hosts in the order __getClusterHosts lists them.
Hosts == <<"p1", "p2", "p3">>

\* What a peer does with the request: 200 with the stat, 404 with the
\* "not running on this node" text, no answer within 3 s, or a failed request.
Responses ==
  {[status |-> "200", body |-> "stat"], [status |-> "404", body |-> "not running"],
   [status |-> "timeout", body |-> None], [status |-> "error", body |-> None]}

NoResult == [some |-> FALSE, body |-> None]

\* __send answering with the body of a 404 as well:
SendAnyStatus(r) ==
  IF r.status \in {"200", "404"} THEN [some |-> TRUE, body |-> r.body] ELSE NoResult

\* __send (lines 38-45): the parsed body of a 200, None otherwise.
Send(r) == IF r.status = "200" THEN [some |-> TRUE, body |-> r.body] ELSE NoResult

\* Exactly one peer hosts the container, or none does.
FanoutInit ==
  /\ \E resp \in [Peers -> Responses] :
       /\ Cardinality({q \in Peers : resp[q].status = "200"}) <= 1
       /\ fanout = [resp |-> resp, todo |-> Hosts, running |-> {}, ready |-> <<>>,
                    pc |-> "iter", result |-> NoResult, skipped |-> 0]
  /\ QInit /\ OthersIdle /\ retry = None /\ http = None /\ mem = None /\ PartsIdle

FanoutFrame == UNCHANGED <<qvars, others, retry, http, mem, parts>>

\* A free thread of the discovery pool takes the next request.
SendStart ==
  /\ fanout.todo # <<>>
  /\ Cardinality(fanout.running) < DiscoveryWorkers
  /\ fanout' = [fanout EXCEPT !.todo = Tail(@), !.running = @ \cup {Head(fanout.todo)}]
  /\ FanoutFrame

\* The request to peer q is over; its result joins those imap_unordered yields.
SendDone(q) ==
  /\ q \in fanout.running
  /\ fanout' = [fanout EXCEPT !.running = @ \ {q},
                              !.ready = Append(@, Send(fanout.resp[q]))]
  /\ FanoutFrame

\* The loop of lines 33-35 on the next result, in completion order.
TakeResult ==
  /\ fanout.pc = "iter"
  /\ fanout.ready # <<>>
  /\ IF Head(fanout.ready).some
       THEN fanout' = [fanout EXCEPT !.pc = "returned", !.result = Head(fanout.ready),
                                     !.ready = Tail(@)]
       ELSE fanout' = [fanout EXCEPT !.ready = Tail(@), !.skipped = @ + 1]
  /\ FanoutFrame

\* Every request is over and none gave a result: return None (line 36).
ReturnNone ==
  /\ fanout.pc = "iter"
  /\ fanout.todo = <<>> /\ fanout.running = {} /\ fanout.ready = <<>>
  /\ fanout' = [fanout EXCEPT !.pc = "returned"]
  /\ FanoutFrame

FanoutNext ==
  \/ SendStart
  \/ \E q \in Peers : SendDone(q)
  \/ TakeResult
  \/ ReturnNone

SpecFanout == FanoutInit /\ [][FanoutNext]_vars

\* ================================================================= SpecHttp
\* One request to GET /api/container/stats on a node (container_controller.py;
\* urls.py holds the same handler).
IdParams == {None, "", "c1"}
MetricParams == {None, "", "cpu", "CPU", "memory", "Memory", " memory", "disk"}
CpuLimitParams == {None, "", "0.5", " 2 ", "-1", "abc", "1,5"}

\* str.lower() and str.strip().lower() on the metric values above.
Lower(v) ==
  CASE v = "CPU" -> "cpu"
    [] v = "Memory" -> "memory"
    [] OTHER -> v

StripLower2(v) == IF v = " memory" THEN "memory" ELSE Lower(v)

SUPPORTED_METRIC_STRINGS == {"cpu", "memory"}

\* constants.parse_metric (lines 36-42); "" and None are falsy.
ParseMetric(v) ==
  IF v = None \/ v = "" THEN "CPU"
  ELSE IF StripLower2(v) = "memory" THEN "MEMORY"
  ELSE "CPU"

\* constants.metric_to_str
MetricToStr(m) == IF m = "CPU" THEN "cpu" ELSE "memory"

\* float() accepting every text:
IsFloatAlways(v) == TRUE

\* float(cpuLimitParam) succeeds: surrounding white space is allowed.
IsFloat(v) == v \in {"0.5", " 2 ", "-1"}

Answer(st, key) == [status |-> st, key |-> key]

\* getContainerStats (container_controller.py:9-41); running says whether
\* containers.list(filters={'id': id}) finds the container on this node.
GetContainerStats(id, metricParam, cpuLimitParam, running) ==
  LET metric == IF metricParam = None THEN "" ELSE Lower(metricParam)
      metric_enum == ParseMetric(metric)
  IN IF id = None \/ id = "" THEN Answer(400, None)
     ELSE IF metric # "" /\ metric \notin SUPPORTED_METRIC_STRINGS THEN Answer(400, None)
     ELSE IF metric_enum = "CPU"
       THEN IF cpuLimitParam = None THEN Answer(400, None)
            ELSE IF ~IsFloat(cpuLimitParam) THEN Answer(400, None)
            ELSE IF ~running THEN Answer(404, None)
            ELSE Answer(200, MetricToStr(metric_enum))
       ELSE IF ~running THEN Answer(404, None)
            ELSE Answer(200, MetricToStr(metric_enum))

HttpInit ==
  /\ \E id \in IdParams, m \in MetricParams, c \in CpuLimitParams, r \in BOOLEAN :
       http = [id |-> id, metric |-> m, cpuLimit |-> c, running |-> r,
               done |-> FALSE, out |-> Answer(0, None)]
  /\ QInit /\ OthersIdle /\ retry = None /\ fanout = None /\ mem = None /\ PartsIdle

HttpFrame == UNCHANGED <<qvars, others, retry, fanout, mem, parts>>

HandleRequest ==
  /\ ~http.done
  /\ http' = [http EXCEPT !.done = TRUE,
                          !.out = GetContainerStats(http.id, http.metric, http.cpuLimit,
                                                    http.running)]
  /\ HttpFrame

\* The next request arrives.
NextRequest(id, m, c, r) ==
  /\ http.done
  /\ http' = [id |-> id, metric |-> m, cpuLimit |-> c, running |-> r,
              done |-> FALSE, out |-> Answer(0, None)]
  /\ HttpFrame

HttpNext ==
  \/ HandleRequest
  \/ \E id \in IdParams, m \in MetricParams, c \in CpuLimitParams, r \in BOOLEAN :
       NextRequest(id, m, c, r)

SpecHttp == HttpInit /\ [][HttpNext]_vars

\* =============================================================== SpecMemory
\* One evaluation of a service on the memory metric: by the decision loop, on
\* the samples __calculateMemory makes of the runtime's memory_stats, and by
\* evaluate_service, on the memory bytes and the limit of the service's label.

\* Memory in use, and the limit: 0 where none is reported or configured (the
\* default of both .get calls). The values divide without a remainder, so the
\* integer quotient is the float the code computes.
MemUsages == {0, 50, 100, 200}
MemLimits == {0, 100, 200}

\* The usage of each running container of the service.
MemContainers ==
  {<<a>> : a \in MemUsages} \cup {<<a, b>> : a \in MemUsages, b \in MemUsages}

\* Watermarks of a service, within the 0-100 the labels are documented with.
MemWatermarks == Watermarks \cup {[low |-> 0, high |-> 0], [low |-> 100, high |-> 0]}

MemReplicas == 1..3
MemMinReplicas == {1, 2}
MemMaxReplicas == {2, 3}

\* thresholds of a service entry: cpu and memory, 70 unless labelled.
Thresholds == {[cpu |-> 70, memory |-> 70], [cpu |-> 70, memory |-> 0],
               [cpu |-> 50, memory |-> 100]}
CpuPcts == {10, 60, 80}

\* __calculateMemory taking a missing limit for a full one:
CalculateMemoryFullWithoutLimit(usage, limit) ==
  IF limit <= 0 THEN 100 ELSE (usage * 100) \div limit

\* __calculateMemory: usage / limit * 100, and 0.0 when limit <= 0.0.
CalculateMemory(usage, limit) ==
  IF limit <= 0 THEN 0 ELSE (usage * 100) \div limit

\* The samples __autoscale collects: one per running container.
MemorySamples(usages, limit) ==
  [i \in 1..Len(usages) |-> CalculateMemory(usages[i], limit)]

\* evaluate_service lines 60-75: mem_pct from memory_bytes and the label.
MemPct(memBytes, memLimit) ==
  IF memLimit > 0 THEN (memBytes * 100) \div memLimit ELSE 0

MinOf(a, b) == IF a < b THEN a ELSE b
MaxOf(a, b) == IF a > b THEN a ELSE b

\* evaluate_service lines 84-100: the desired replica count ("below half the
\* threshold" is compared doubled).
EvaluateService(metric, cpuPct, memPct, thr, current, minR, maxR) ==
  IF metric = "cpu"
    THEN IF cpuPct > thr.cpu THEN MinOf(current + 1, maxR)
         ELSE IF 2 * cpuPct < thr.cpu THEN MaxOf(current - 1, minR)
         ELSE current
    ELSE IF metric = "memory" /\ memPct > 0
      THEN IF memPct > thr.memory THEN MinOf(current + 1, maxR)
           ELSE IF 2 * memPct < thr.memory THEN MaxOf(current - 1, minR)
           ELSE current
      ELSE current

\* What a desired replica count asks of the service.
DirectionOf(current, desired) ==
  IF desired > current THEN "up" ELSE IF desired < current THEN "down" ELSE "none"

\* evaluate_service lines 87-100: the threshold the metric crossed, in the
\* order of the tests.
Crossed(metric, cpuPct, memPct, thr) ==
  IF metric = "cpu"
    THEN IF cpuPct > thr.cpu THEN "high"
         ELSE IF 2 * cpuPct < thr.cpu THEN "low" ELSE "none"
    ELSE IF metric = "memory" /\ memPct > 0
      THEN IF memPct > thr.memory THEN "high"
           ELSE IF 2 * memPct < thr.memory THEN "low" ELSE "none"
      ELSE "none"

\* evaluate_service lines 102-128: no request when desired is the current
\* count or the cooldown has not passed; else the payload of the request.
NoPayload == [sent |-> FALSE, from_replicas |-> None, to_replicas |-> None]

ScalePayload(current, desired, cooled) ==
  IF desired = current \/ ~cooled THEN NoPayload
  ELSE [sent |-> TRUE, from_replicas |-> current, to_replicas |-> desired]

NoEntry == [min_replicas |-> None, max_replicas |-> None, crossed |-> None]

MemInit ==
  /\ mem = [impl |-> None, metric |-> None, limit |-> 0, usages |-> <<>>,
            pcts |-> <<>>, out |-> None, entry |-> NoEntry, payload |-> NoPayload]
  /\ QInit /\ OthersIdle /\ retry = None /\ fanout = None /\ http = None /\ PartsIdle

MemFrame == UNCHANGED <<qvars, others, retry, fanout, http, parts>>

\* __autoscale and __scale on a service whose metric label is memory.
LoopEvaluate ==
  /\ \E usages \in MemContainers, limit \in MemLimits, w \in MemWatermarks,
        m \in {"MEDIAN", "MAX"}, r \in MemReplicas, lo \in MemMinReplicas,
        hi \in MemMaxReplicas :
       LET stats == MemorySamples(usages, limit)
       IN mem' = [impl |-> "loop", metric |-> "memory", limit |-> limit,
                  usages |-> usages, pcts |-> stats,
                  out |-> Decide(stats, w.high, w.low, m, r, lo, hi, TRUE),
                  entry |-> NoEntry, payload |-> NoPayload]
  /\ MemFrame

\* evaluate_service on a service entry and the metrics of the service.
ServiceEvaluate ==
  /\ \E metric \in {"cpu", "memory"}, cpuPct \in CpuPcts, memBytes \in MemUsages,
        limit \in MemLimits, thr \in Thresholds, r \in MemReplicas,
        lo \in MemMinReplicas, hi \in MemMaxReplicas, cooled \in BOOLEAN :
       LET pct == MemPct(memBytes, limit)
           desired == EvaluateService(metric, cpuPct, pct, thr, r, lo, hi)
       IN mem' = [impl |-> "service", metric |-> metric, limit |-> limit,
                  usages |-> <<memBytes>>, pcts |-> <<pct>>,
                  out |-> DirectionOf(r, desired),
                  entry |-> [min_replicas |-> lo, max_replicas |-> hi,
                             crossed |-> Crossed(metric, cpuPct, pct, thr)],
                  payload |-> ScalePayload(r, desired, cooled)]
  /\ MemFrame

MemNext ==
  \/ LoopEvaluate
  \/ ServiceEvaluate

SpecMemory == MemInit /\ [][MemNext]_vars

\* ============================================================= SpecCooldown
\* The autoscaler service: the polling thread and a request to /evaluate, each
\* in evaluate_service past the "desired == current_replicas" test, on one clock.
components == <<retry, fanout, http, mem>>

ComponentsIdle == retry = None /\ fanout = None /\ http = None /\ mem = None

\* The threads that call evaluate_service.
Evaluators == {"poll", "req"}

\* The service entries evaluated.
CoolServices == {"s1"}

IdleEval == [pc |-> "idle", svc |-> None]

\* time.time() at the start of the process is far more than cooldown_sec after
\* 0, the timestamp of a service never scaled; lastIssue -1: no request yet.
CoolInit ==
  /\ \E a \in BOOLEAN :
       cool = [now |-> CooldownSec, async |-> a,
               last |-> [s \in CoolServices |-> 0],
               ev |-> [e \in Evaluators |-> IdleEval],
               lastIssue |-> [s \in CoolServices |-> -1],
               gaps |-> [s \in CoolServices |-> {}]]
  /\ QInit /\ OthersIdle /\ ComponentsIdle
  /\ watch = None /\ store = None /\ registry = None /\ auto = None /\ cadvisor = None

CoolFrame == UNCHANGED <<qvars, others, components, watch, store, registry, auto, cadvisor>>

\* should_scale: (now - ts) >= cooldown_sec.
ShouldScale(now, ts) == (now - ts) >= CooldownSec

\* The clock.
ClockTick ==
  /\ cool.now < CooldownSec + MaxTime
  /\ cool' = [cool EXCEPT !.now = @ + 1]
  /\ CoolFrame

\* evaluate_service reaches line 119 with desired # current_replicas.
EvalStart(e, s) ==
  /\ cool.ev[e].pc = "idle"
  /\ cool' = [cool EXCEPT !.ev[e] = [pc |-> "check", svc |-> s]]
  /\ CoolFrame

\* Line 119: if not should_scale(service_name): return.
EvalCheck(e) ==
  /\ cool.ev[e].pc = "check"
  /\ cool' = [cool EXCEPT !.ev[e] =
                IF ShouldScale(cool.now, cool.last[cool.ev[e].svc])
                  THEN [@ EXCEPT !.pc = IF cool.async THEN "record" ELSE "post"]
                  ELSE IdleEval]
  /\ CoolFrame

\* A scale request for s leaves at the present time.
Issue(c, s) ==
  [c EXCEPT !.lastIssue[s] = c.now,
            !.gaps[s] = IF c.lastIssue[s] < 0 THEN @ ELSE @ \cup {c.now - c.lastIssue[s]}]

\* async_scale, lines 131-133: record_scaled, then the thread is started.
EvalRecordAsync(e) ==
  /\ cool.ev[e].pc = "record"
  /\ cool' = [cool EXCEPT !.last[cool.ev[e].svc] = cool.now, !.ev[e].pc = "start"]
  /\ CoolFrame

\* _do_scale_request posts to /scale; its outcome is only logged.
EvalIssueAsync(e) ==
  /\ cool.ev[e].pc = "start"
  /\ cool' = [Issue(cool, cool.ev[e].svc) EXCEPT !.ev[e] = IdleEval]
  /\ CoolFrame

\* Line 137: requests.post(.../scale).
EvalPostSync(e) ==
  /\ cool.ev[e].pc = "post"
  /\ cool' = [Issue(cool, cool.ev[e].svc) EXCEPT !.ev[e].pc = "posted"]
  /\ CoolFrame

\* Lines 138-140: the request succeeded, record_scaled.
EvalPostOk(e) ==
  /\ cool.ev[e].pc = "posted"
  /\ cool' = [cool EXCEPT !.last[cool.ev[e].svc] = cool.now, !.ev[e] = IdleEval]
  /\ CoolFrame

\* Lines 141-142: the request failed, the error is logged.
EvalPostFail(e) ==
  /\ cool.ev[e].pc = "posted"
  /\ cool' = [cool EXCEPT !.ev[e] = IdleEval]
  /\ CoolFrame

CoolNext ==
  \/ ClockTick
  \/ \E e \in Evaluators, s \in CoolServices : EvalStart(e, s)
  \/ \E e \in Evaluators : EvalCheck(e)
  \/ \E e \in Evaluators : EvalRecordAsync(e)
  \/ \E e \in Evaluators : EvalIssueAsync(e)
  \/ \E e \in Evaluators : EvalPostSync(e)
  \/ \E e \in Evaluators : EvalPostOk(e)
  \/ \E e \in Evaluators : EvalPostFail(e)

SpecCooldown == CoolInit /\ [][CoolNext]_vars

\* ================================================================ SpecWatch
\* DockerSwarmAdapter.watch_events on the orchestrator's event stream.
EventActions == {"create", "update", "remove", "start", ""}

\* What client.events(decode=True) can yield: service events with every action
\* ("": none given), of two services; an event of a container; and something
\* that is not a dict at all.
Events ==
  {[type |-> "service", action |-> a, id |-> "a"] : a \in EventActions}
    \cup {[type |-> "service", action |-> "remove", id |-> "b"],
          [type |-> "container", action |-> "create", id |-> "a"],
          [type |-> "notdict", action |-> "", id |-> ""]}

\* Lines 335-343: the events that reach the callback.
IsServiceEvent(e) ==
  /\ e.type # "notdict"
  /\ e.type = "service"
  /\ e.action \in {"create", "update", "remove"}

\* The call the event makes: callback(action, service_id).
CallOf(e) == [action |-> e.action, id |-> e.id]

\* watch_events giving up at the first error:
AfterErrorReturn == "returned"

\* Lines 350-352: except Exception: log, sleep 2 s, and the while loop goes on.
AfterError == "sleep"

\* The except branch is taken by w; callsAtError keeps how many calls of the
\* callback had been made by then (-1: no error yet).
Caught(w, calls) == [w EXCEPT !.pc = AfterError, !.callsAtError = Len(calls)]

WatchInit ==
  /\ watch = [pc |-> "connect", yielded |-> <<>>, calls |-> <<>>, callsAtError |-> -1]
  /\ QInit /\ OthersIdle /\ ComponentsIdle
  /\ cool = None /\ store = None /\ registry = None /\ auto = None /\ cadvisor = None

WatchFrame == UNCHANGED <<qvars, others, components, cool, store, registry, auto, cadvisor>>

\* client.events(decode=True) returns the stream.
Connect ==
  /\ watch.pc = "connect"
  /\ watch' = [watch EXCEPT !.pc = "stream"]
  /\ WatchFrame

\* client.events raises (the orchestrator cannot be reached).
ConnectFails ==
  /\ watch.pc = "connect"
  /\ watch' = Caught(watch, watch.calls)
  /\ WatchFrame

\* The stream yields e; the loop body runs on it. The callback may raise, which
\* the except of line 350 takes for a stream error.
StreamEvent(e, raises) ==
  /\ watch.pc = "stream"
  /\ Len(watch.yielded) < MaxEvents
  /\ LET w == [watch EXCEPT
                  !.yielded = Append(@, e),
                  !.calls = IF IsServiceEvent(e) THEN Append(@, CallOf(e)) ELSE @]
     IN watch' = IF IsServiceEvent(e) /\ raises THEN Caught(w, w.calls) ELSE w
  /\ WatchFrame

\* The stream raises (connection lost, undecodable chunk).
StreamError ==
  /\ watch.pc = "stream"
  /\ watch' = Caught(watch, watch.calls)
  /\ WatchFrame

\* The stream ends without an error: the while loop opens the next one.
StreamEnds ==
  /\ watch.pc = "stream"
  /\ watch' = [watch EXCEPT !.pc = "connect"]
  /\ WatchFrame

\* time.sleep(2) returns.
WatchSleepDone ==
  /\ watch.pc = "sleep"
  /\ watch' = [watch EXCEPT !.pc = "connect"]
  /\ WatchFrame

WatchNext ==
  \/ Connect
  \/ ConnectFails
  \/ \E e \in Events, raises \in BOOLEAN : StreamEvent(e, raises)
  \/ StreamError
  \/ StreamEnds
  \/ WatchSleepDone

\* The thread of watch_events is scheduled: a sleep that can end ends, and a
\* connection attempt that can be made is made.
SpecWatch ==
  WatchInit /\ [][WatchNext]_vars /\ WF_vars(WatchSleepDone) /\ WF_vars(Connect \/ ConnectFails)

\* ================================================================ SpecStore
\* EventsStore: add_scale_event, the writer thread, the synchronous insert of a
\* full queue, the flush at exit, clear, and the rows of the events table. An
\* event is its ts, which grows with every add_scale_event.
StoreWriters == {"writer", "fallback", "shutdown"}

\* Where each of them is when it is not writing.
RestPc(k) ==
  IF k = "writer" THEN "top" ELSE IF k = "fallback" THEN "idle" ELSE "done"

\* The n rows first in ORDER BY ts ASC (all of them if there are fewer).
Oldest(rows, n) == {x \in rows : Cardinality({y \in rows : y < x}) < n}

\* _enforce_retention letting one row more stay:
OverflowLax(total) == total - MaxRows - 1

\* _enforce_retention: overflow = total - max_events.
Overflow(total) == total - MaxRows

SeqToSet(q) == {q[i] : i \in 1..Len(q)}

StoreInit ==
  /\ store = [rows |-> {}, q |-> <<>>, next |-> 1, stop |-> FALSE,
              w |-> [k \in StoreWriters |->
                       [pc |-> IF k = "writer" THEN "top"
                               ELSE IF k = "fallback" THEN "idle" ELSE "run",
                        batch |-> {}, cnt |-> 0]],
              evicted |-> {}, lastEvicted |-> {}, cleared |-> {}, dropped |-> {},
              retentionFailed |-> FALSE, exited |-> FALSE]
  /\ QInit /\ OthersIdle /\ ComponentsIdle
  /\ cool = None /\ watch = None /\ registry = None /\ auto = None /\ cadvisor = None

StoreFrame == UNCHANGED <<qvars, others, components, cool, watch, registry, auto, cadvisor>>

\* add_scale_event: put_nowait, or the synchronous write when the queue is full.
AddScaleEvent ==
  /\ ~store.exited
  /\ store.w["shutdown"].pc = "run"
  /\ store.w["fallback"].pc = "idle"
  /\ store.next <= MaxAdds
  /\ store' = IF Len(store.q) < StoreQueueMax
                THEN [store EXCEPT !.q = Append(@, store.next), !.next = @ + 1]
                ELSE [store EXCEPT !.next = @ + 1,
                                   !.w["fallback"] = [pc |-> "insert", batch |-> {store.next},
                                                      cnt |-> 0]]
  /\ StoreFrame

\* _writer_loop, line 221: while not self._stop_event.is_set().
WriterTop ==
  /\ ~store.exited
  /\ store.w["writer"].pc = "top"
  /\ store' = [store EXCEPT !.w["writer"].pc = IF store.stop THEN "stopped" ELSE "get"]
  /\ StoreFrame

\* Lines 224-233: one item, then up to batch size without blocking.
WriterTake ==
  /\ ~store.exited
  /\ store.w["writer"].pc = "get"
  /\ store.q # <<>>
  /\ LET n == IF Len(store.q) < BatchSize THEN Len(store.q) ELSE BatchSize
     IN store' = [store EXCEPT !.q = SubSeq(@, n + 1, Len(@)),
                               !.w["writer"] = [pc |-> "insert",
                                                batch |-> SeqToSet(SubSeq(store.q, 1, n)),
                                                cnt |-> 0]]
  /\ StoreFrame

\* Lines 226-227, 234-235: the get times out on an empty queue.
WriterTimeout ==
  /\ ~store.exited
  /\ store.w["writer"].pc = "get"
  /\ store.q = <<>>
  /\ store' = [store EXCEPT !.w["writer"].pc = "top"]
  /\ StoreFrame

\* The INSERT of a write succeeds.
InsertOk(k) ==
  /\ ~store.exited
  /\ store.w[k].pc = "insert"
  /\ store' = [store EXCEPT !.rows = @ \cup store.w[k].batch,
                            !.w[k].pc = "count"]
  /\ StoreFrame

\* Connecting or the INSERT raises: the except of the write logs a warning and
\* the events of the write are gone.
InsertFails(k) ==
  /\ ~store.exited
  /\ store.w[k].pc = "insert"
  /\ store' = [store EXCEPT !.dropped = @ \cup store.w[k].batch,
                            !.w[k] = [pc |-> RestPc(k), batch |-> {}, cnt |-> 0]]
  /\ StoreFrame

\* _enforce_retention, lines 200-202: SELECT COUNT(*), overflow.
RetentionCount(k) ==
  /\ ~store.exited
  /\ store.w[k].pc = "count"
  /\ LET total == Cardinality(store.rows)
     IN store' = IF Overflow(total) > 0
                   THEN [store EXCEPT !.w[k].pc = "delete", !.w[k].cnt = Overflow(total)]
                   ELSE [store EXCEPT !.w[k] = [pc |-> RestPc(k), batch |-> {}, cnt |-> 0],
                                      !.lastEvicted = {}]
  /\ StoreFrame

\* _enforce_retention, lines 203-206: DELETE ... ORDER BY ts ASC LIMIT overflow.
RetentionDelete(k) ==
  /\ ~store.exited
  /\ store.w[k].pc = "delete"
  /\ LET gone == Oldest(store.rows, store.w[k].cnt)
     IN store' = [store EXCEPT !.rows = @ \ gone,
                               !.evicted = @ \cup gone,
                               !.lastEvicted = gone,
                               !.w[k] = [pc |-> RestPc(k), batch |-> {}, cnt |-> 0]]
  /\ StoreFrame

\* _enforce_retention, lines 207-208: a statement raises, a warning is logged.
RetentionFails(k) ==
  /\ ~store.exited
  /\ store.w[k].pc \in {"count", "delete"}
  /\ store' = [store EXCEPT !.retentionFailed = TRUE,
                            !.lastEvicted = {},
                            !.w[k] = [pc |-> RestPc(k), batch |-> {}, cnt |-> 0]]
  /\ StoreFrame

\* clear(): DELETE FROM events.
Clear ==
  /\ ~store.exited
  /\ store.rows # {}
  /\ store.cleared = {}
  /\ store' = [store EXCEPT !.rows = {}, !.cleared = store.rows]
  /\ StoreFrame

\* _shutdown at exit, line 259: the stop event is set.
ShutdownStart ==
  /\ store.w["shutdown"].pc = "run"
  /\ store.w["fallback"].pc = "idle"
  /\ store' = [store EXCEPT !.stop = TRUE, !.w["shutdown"].pc = "join"]
  /\ StoreFrame

\* Line 261: join(timeout=1.5) returns, the writer stopped or not.
ShutdownJoined ==
  /\ store.w["shutdown"].pc = "join"
  /\ store' = [store EXCEPT !.w["shutdown"].pc = "drain"]
  /\ StoreFrame

\* Lines 265-271: everything left in the queue is taken.
ShutdownDrain ==
  /\ store.w["shutdown"].pc = "drain"
  /\ store' = IF store.q = <<>>
                THEN [store EXCEPT !.w["shutdown"].pc = "done"]
                ELSE [store EXCEPT !.q = <<>>,
                                   !.w["shutdown"] = [pc |-> "insert",
                                                      batch |-> SeqToSet(store.q), cnt |-> 0]]
  /\ StoreFrame

\* The process ends after _shutdown: the writer, a daemon thread, ends with it
\* wherever it is, and with it the events it holds and has not inserted.
ProcessExit ==
  /\ ~store.exited
  /\ store.w["shutdown"].pc = "done"
  /\ store' = [store EXCEPT
                 !.exited = TRUE,
                 !.dropped = IF store.w["writer"].pc = "insert"
                               THEN @ \cup store.w["writer"].batch ELSE @,
                 !.w["writer"] = [pc |-> "killed", batch |-> {}, cnt |-> 0]]
  /\ StoreFrame

StoreNext ==
  \/ AddScaleEvent
  \/ WriterTop
  \/ WriterTake
  \/ WriterTimeout
  \/ \E k \in StoreWriters : InsertOk(k)
  \/ \E k \in StoreWriters : InsertFails(k)
  \/ \E k \in StoreWriters : RetentionCount(k)
  \/ \E k \in StoreWriters : RetentionDelete(k)
  \/ \E k \in StoreWriters : RetentionFails(k)
  \/ Clear
  \/ ShutdownStart
  \/ ShutdownJoined
  \/ ShutdownDrain
  \/ ProcessExit

SpecStore == StoreInit /\ [][StoreNext]_vars

\* ============================================================= SpecRegistry
\* The services of the orchestrator, the listings made of them (the adapter of
\* the registry, getAutoscaleServices of the decision loop) and the cache of
\* the registry.
RegIds == <<"a", "b">>

\* Values of the autoscale label of a service; None: the service has no such label.
LabelValues == {None, "true", "True", "false"}

RegReplicas == {1, 2}

\* str(v).lower() on the label values.
LabelLower(v) == IF v = "True" THEN "true" ELSE v

\* service_matches_labels: str(labels.get(label, "false")).lower() == "true".
ServiceMatchesLabels(label) ==
  LabelLower(IF label = None THEN "false" ELSE label) = "true"

\* build_service_entry, the fields the cache compares.
ServiceEntry(orch, id) ==
  [id |-> id, current_replicas |-> orch[id].replicas, updated_at |-> orch[id].updatedAt]

\* The services that match, in the order services.list() gives them.
MatchingServices(orch) ==
  LET all == [i \in 1..Len(RegIds) |-> ServiceEntry(orch, RegIds[i])]
      Matches(e) == ServiceMatchesLabels(orch[e.id].label)
  IN SelectSeq(all, Matches)

\* getAutoscaleServices: the services carrying the label (the filter of
\* services.list), of them those whose label is 'true'; None if none carries it.
GetAutoscaleServices(orch) ==
  LET carrying == {RegIds[i] : i \in {j \in 1..Len(RegIds) : orch[RegIds[j]].label # None}}
  IN {id \in carrying : orch[id].label = "true"}

IdsOf(services) == {services[i].id : i \in 1..Len(services)}

ById(services, id) ==
  services[CHOOSE i \in 1..Len(services) : services[i].id = id]

\* _services_have_changed answering True whatever it is given:
ServicesHaveChangedAlways(cache, new) == TRUE

\* _services_have_changed: lengths, sets of ids, then replicas and updated_at.
ServicesHaveChanged(cache, new) ==
  IF Len(new) # Len(cache) THEN TRUE
  ELSE IF IdsOf(cache) # IdsOf(new) THEN TRUE
  ELSE \E id \in IdsOf(cache) :
         \/ ById(cache, id).current_replicas # ById(new, id).current_replicas
         \/ ById(cache, id).updated_at # ById(new, id).updated_at

\* What a listing sees of the orchestrator.
Snapshot(r) == [orch |-> r.orch, up |-> r.up]

RegistryInit ==
  /\ \E la \in LabelValues, lb \in LabelValues :
       registry = [orch |-> [id \in {"a", "b"} |->
                              [label |-> IF id = "a" THEN la ELSE lb,
                               replicas |-> 1, updatedAt |-> 0]],
                   up |-> TRUE, changes |-> 0,
                   pc |-> "idle", new |-> <<>>, snap |-> <<>>, applied |-> <<>>,
                   lastApply |-> "none",
                   cache |-> <<>>, version |-> 0, callbacks |-> 0,
                   lists |-> <<>>, mono |-> <<>>]
  /\ QInit /\ OthersIdle /\ ComponentsIdle
  /\ cool = None /\ watch = None /\ store = None /\ auto = None /\ cadvisor = None

RegistryFrame == UNCHANGED <<qvars, others, components, cool, watch, store, auto, cadvisor>>

\* The orchestrator: a service is relabelled, or scaled; either moves UpdatedAt.
OrchRelabel(id, l) ==
  /\ registry.changes < MaxChanges
  /\ registry.orch[id].label # l
  /\ registry' = [registry EXCEPT !.orch[id].label = l,
                                  !.orch[id].updatedAt = registry.changes + 1,
                                  !.changes = @ + 1]
  /\ RegistryFrame

OrchScale(id, n) ==
  /\ registry.changes < MaxChanges
  /\ registry.orch[id].replicas # n
  /\ registry' = [registry EXCEPT !.orch[id].replicas = n,
                                  !.orch[id].updatedAt = registry.changes + 1,
                                  !.changes = @ + 1]
  /\ RegistryFrame

\* The orchestrator stops or starts answering.
OrchToggle ==
  /\ registry.changes < MaxChanges
  /\ registry' = [registry EXCEPT !.up = ~@, !.changes = @ + 1]
  /\ RegistryFrame

\* refresh_services, line 70: new_services = get_all_services().
RefreshList ==
  /\ registry.pc = "idle"
  /\ LET new == GetAllServices(IF registry.up THEN "ok" ELSE "error",
                                MatchingServices(registry.orch))
         l == [snap |-> Snapshot(registry), result |-> new]
     IN registry' = [registry EXCEPT
                       !.pc = "apply", !.new = new, !.snap = <<Snapshot(registry)>>,
                       !.lists = IF Len(@) < 2 THEN Append(@, l) ELSE <<@[2], l>>]
  /\ RegistryFrame

\* refresh_services, lines 72-93, under the cache lock.
RefreshApply ==
  /\ registry.pc = "apply"
  /\ registry' =
       IF ServicesHaveChanged(registry.cache, registry.new)
         THEN [registry EXCEPT !.pc = "idle", !.applied = registry.snap,
                               !.lastApply = "changed",
                               !.cache = registry.new, !.version = @ + 1,
                               !.callbacks = @ + 1]
         ELSE [registry EXCEPT !.pc = "idle", !.applied = registry.snap,
                               !.lastApply = "unchanged"]
  /\ RegistryFrame

\* The decision loop lists with getAutoscaleServices.
ListMonolith ==
  /\ registry.up
  /\ registry' = [registry EXCEPT
                    !.mono = <<[snap |-> Snapshot(registry),
                                result |-> GetAutoscaleServices(registry.orch)]>>]
  /\ RegistryFrame

RegistryNext ==
  \/ \E id \in {"a", "b"}, l \in LabelValues : OrchRelabel(id, l)
  \/ \E id \in {"a", "b"}, n \in RegReplicas : OrchScale(id, n)
  \/ OrchToggle
  \/ RefreshList
  \/ RefreshApply
  \/ ListMonolith

SpecRegistry == RegistryInit /\ [][RegistryNext]_vars

\* ============================================================ SpecAutoscale
\* One call of __autoscale on a service: the container ids of its running
\* tasks, one stats query per container, then __scale on what was collected.
MaxContainers == 3

\* What getContainerStats returns for a container: None (no peer answered), a
\* dict without the metric key, or a dict with a value for the key.
StatsAnswers ==
  {[kind |-> "nil", v |-> 0], [kind |-> "nokey", v |-> 0]}
    \cup {[kind |-> "ok", v |-> x] : x \in {10, 90}}

\* The answer counts as a sample whenever it is a dict:
HasMetricAnyDict(r) == r.kind # "nil"

\* Line 79: containerStats != None and metric_key in containerStats.
HasMetric(r) == r.kind = "ok"

\* getServiceContainersId: None without running tasks, else the container ids
\* of the tasks that have a ContainerStatus (possibly none of them).
ContainerLists ==
  {[isNone |-> TRUE, answers |-> <<>>]}
    \cup {[isNone |-> FALSE, answers |-> a] :
            a \in UNION {[1..n -> StatsAnswers] : n \in 0..MaxContainers}}

NoContainers(c) == c.isNone \/ Len(c.answers) = 0

AutoscaleInit ==
  /\ \E c \in ContainerLists, r \in 1..3 :
       auto = [containers |-> c, replicas |-> r, pc |-> "list", next |-> 1,
               stats |-> <<>>, scaled |-> FALSE, enqueued |-> None]
  /\ QInit /\ OthersIdle /\ ComponentsIdle
  /\ cool = None /\ watch = None /\ store = None /\ registry = None /\ cadvisor = None

AutoscaleFrame == UNCHANGED <<qvars, others, components, cool, watch, store, registry, cadvisor>>

\* Lines 69-73: without containers the call logs a warning and returns.
AutoscaleList ==
  /\ auto.pc = "list"
  /\ auto' = [auto EXCEPT !.pc = IF NoContainers(auto.containers) THEN "done"
                                 ELSE "collect"]
  /\ AutoscaleFrame

\* Lines 77-80: the query for the next container; its value is appended when
\* the answer has the metric.
AutoscaleQuery ==
  /\ auto.pc = "collect"
  /\ auto.next <= Len(auto.containers.answers)
  /\ LET r == auto.containers.answers[auto.next]
     IN auto' = [auto EXCEPT !.next = @ + 1,
                             !.stats = IF HasMetric(r) THEN Append(@, r.v) ELSE @]
  /\ AutoscaleFrame

\* Lines 81-82 and __scale: with at least one sample the median is computed
\* and the decision taken ("up" / "down" call _enqueue_scale); without any,
\* __autoscale returns.
AutoscaleScale ==
  /\ auto.pc = "collect"
  /\ auto.next > Len(auto.containers.answers)
  /\ IF Len(auto.stats) > 0
       THEN LET d == Decide(auto.stats, DEFAULT_MAX_PERCENTAGE, DEFAULT_MIN_PERCENTAGE,
                           "MEDIAN", auto.replicas, DEFAULT_MIN_REPLICAS,
                           DEFAULT_MAX_REPLICAS, TRUE)
            IN auto' = [auto EXCEPT !.pc = "done", !.scaled = TRUE,
                                    !.enqueued = IF d \in Directions THEN d ELSE None]
       ELSE auto' = [auto EXCEPT !.pc = "done"]
  /\ AutoscaleFrame

AutoscaleNext ==
  \/ AutoscaleList
  \/ AutoscaleQuery
  \/ AutoscaleScale

SpecAutoscale == AutoscaleInit /\ [][AutoscaleNext]_vars

\* ============================================================= SpecCadvisor
\* One call of DockerSwarmAdapter.get_metrics_from_cadvisor(service_name).
MaxCadvisorContainers == 2

\* How the request to cAdvisor ends: requests.get raises, a status other than
\* 200, a 200 whose body is not JSON, or a 200 with the container tree.
CadvisorResponses == {"raises", "status500", "badjson", "ok"}

\* A container of the tree: under /docker/ or not, its name holding the
\* service name or not, the number of its stat samples, and whether its
\* samples are malformed (processing them raises).
CadvisorContainers ==
  [docker : BOOLEAN, match : BOOLEAN, nstats : 0..3, malformed : BOOLEAN]

\* One stat sample being enough for a container to count:
EnoughStatsOne(n) == n >= 1

\* Line 197: a container with len(stats) < 2 is passed over.
EnoughStats(n) == n >= 2

NoMetrics == [kind |-> "none", n |-> 0]

CadvisorInit ==
  /\ \E r \in CadvisorResponses,
        cs \in UNION {[1..n -> CadvisorContainers] : n \in 0..MaxCadvisorContainers} :
       cadvisor = [resp |-> r, tree |-> cs, pc |-> "request", service |-> <<>>,
                   next |-> 1, samples |-> 0, out |-> [kind |-> "pending", n |-> 0]]
  /\ QInit /\ OthersIdle /\ ComponentsIdle
  /\ cool = None /\ watch = None /\ store = None /\ registry = None /\ auto = None

CadvisorFrame ==
  UNCHANGED <<qvars, others, components, cool, watch, store, registry, auto>>

\* Lines 152-159: the request; an exception (outer except, lines 248-250) and
\* a status other than 200 both return None.
CadvisorRequest ==
  /\ cadvisor.pc = "request"
  /\ cadvisor' = IF cadvisor.resp = "ok"
                   THEN [cadvisor EXCEPT !.pc = "filter"]
                   ELSE [cadvisor EXCEPT !.pc = "done", !.out = NoMetrics]
  /\ CadvisorFrame

\* Lines 161-191: the containers under /docker/ whose name holds the service
\* name; None when there is none.
CadvisorFilter ==
  /\ cadvisor.pc = "filter"
  /\ LET mine == SelectSeq(cadvisor.tree, LAMBDA c : c.docker /\ c.match)
     IN cadvisor' = IF mine = <<>>
                      THEN [cadvisor EXCEPT !.pc = "done", !.out = NoMetrics]
                      ELSE [cadvisor EXCEPT !.pc = "process", !.service = mine]
  /\ CadvisorFrame

\* Lines 196-231: the next container of the service; it yields a sample when
\* it has enough stats and processing them does not raise (inner except).
CadvisorProcess ==
  /\ cadvisor.pc = "process"
  /\ cadvisor.next <= Len(cadvisor.service)
  /\ LET c == cadvisor.service[cadvisor.next]
     IN cadvisor' = [cadvisor EXCEPT
                       !.next = @ + 1,
                       !.samples = IF EnoughStats(c.nstats) /\ ~c.malformed
                                     THEN @ + 1 ELSE @]
  /\ CadvisorFrame

\* Lines 233-246: None without samples, else the averages.
CadvisorReturn ==
  /\ cadvisor.pc = "process"
  /\ cadvisor.next > Len(cadvisor.service)
  /\ cadvisor' = [cadvisor EXCEPT
                    !.pc = "done",
                    !.out = IF cadvisor.samples = 0 THEN NoMetrics
                            ELSE [kind |-> "metrics", n |-> cadvisor.samples]]
  /\ CadvisorFrame

CadvisorNext ==
  \/ CadvisorRequest
  \/ CadvisorFilter
  \/ CadvisorProcess
  \/ CadvisorReturn

SpecCadvisor == CadvisorInit /\ [][CadvisorNext]_vars

\* ================================================================= SpecList
\* EventsStore.list_services and its cache of service names, beside the writes
\* that put events into the table and clear(). An event is its ts and the
\* name of its service.
EventServices == {"a", "b"}

\* The arguments of clear: a service name, or None for every event.
ClearArgs == EventServices \cup {None}

NoCache == [set |-> FALSE, names |-> {}]

NoReturn == [done |-> FALSE, names |-> {}, rows |-> {}, quiet |-> FALSE]

\* SELECT DISTINCT service FROM events.
DistinctServices(rows) == {e.service : e \in rows}

\* The n rows first in ORDER BY ts ASC.
OldestRows(rows, n) == {x \in rows : Cardinality({y \in rows : y.ts < x.ts}) < n}

ListInit ==
  /\ store = [rows |-> {}, next |-> 1, wpc |-> "idle", cache |-> NoCache,
              rpc |-> "idle", read |-> {}, ret |-> NoReturn]
  /\ QInit /\ OthersIdle /\ ComponentsIdle
  /\ cool = None /\ watch = None /\ registry = None /\ auto = None /\ cadvisor = None

\* A write of one event (the writer's batch, or the synchronous write of
\* add_scale_event): the INSERT.
WriteInsert(service) ==
  /\ store.wpc = "idle"
  /\ store.next <= MaxAdds
  /\ store' = [store EXCEPT !.rows = @ \cup {[ts |-> store.next, service |-> service]},
                            !.next = @ + 1, !.wpc = "retain"]
  /\ StoreFrame

\* _enforce_retention inside the write.
WriteRetention ==
  /\ store.wpc = "retain"
  /\ LET overflow == Overflow(Cardinality(store.rows))
     IN store' = [store EXCEPT
                    !.rows = IF overflow > 0 THEN @ \ OldestRows(@, overflow) ELSE @,
                    !.wpc = "invalidate"]
  /\ StoreFrame

\* Lines 115 and 247: self._services_cache = None after the write.
WriteInvalidate ==
  /\ store.wpc = "invalidate"
  /\ store' = [store EXCEPT !.cache = NoCache, !.wpc = "idle"]
  /\ StoreFrame

\* clear(service): the DELETE, and the return inside the with block (the
\* assignment of line 195 comes after the return).
ClearEvents(service) ==
  /\ \E e \in store.rows : service = None \/ e.service = service
  /\ store' = [store EXCEPT
                 !.rows = IF service = None THEN {}
                          ELSE {e \in @ : e.service # service}]
  /\ StoreFrame

\* What list_services has returned, with the rows of the table at the return.
Returned(names, st) ==
  [done |-> TRUE, names |-> names, rows |-> st.rows, quiet |-> st.wpc = "idle"]

\* list_services, lines 211-212: the cache is set and is returned.
ListServicesCached ==
  /\ store.rpc = "idle"
  /\ store.cache.set
  /\ store' = [store EXCEPT !.ret = Returned(store.cache.names, store)]
  /\ StoreFrame

\* list_services, lines 213-215: the query.
ListServicesQuery ==
  /\ store.rpc = "idle"
  /\ ~store.cache.set
  /\ store' = [store EXCEPT !.rpc = "fill", !.read = DistinctServices(store.rows)]
  /\ StoreFrame

\* list_services, lines 216-217: the cache is filled, the names are returned.
ListServicesFill ==
  /\ store.rpc = "fill"
  /\ store' = [store EXCEPT !.rpc = "idle", !.read = {},
                            !.cache = [set |-> TRUE, names |-> store.read],
                            !.ret = Returned(store.read, store)]
  /\ StoreFrame

ListNext ==
  \/ \E service \in EventServices : WriteInsert(service)
  \/ WriteRetention
  \/ WriteInvalidate
  \/ \E service \in ClearArgs : ClearEvents(service)
  \/ ListServicesCached
  \/ ListServicesQuery
  \/ ListServicesFill

SpecList == ListInit /\ [][ListNext]_vars

\* =================================================================== claims
QueuedFor(s) == {i \in 1..Len(scaleQueue) : scaleQueue[i].sid = s}

\* C1 (as claimed): the scale queue never holds two actions of one service
\* (and a re-enqueue of the pending direction changes nothing).
C1_AtMostOneQueuedPerService ==
  \A s \in Services : Cardinality(QueuedFor(s)) <= 1

\* C2 (as claimed): an enqueue of the opposite direction replaces the queued
\* action: no queued action of a service differs from the direction pending
\* for it, and the worker never executes an action that was superseded.
C2_OppositeReplacesQueued ==
  \A s \in Services :
    pending[s] # None =>
      /\ \A i \in QueuedFor(s) : scaleQueue[i].dir = pending[s]
      /\ (wPc \in {"scale", "write"} /\ wItem.sid = s) => wItem.dir = pending[s]

\* C3 (as claimed): an action dropped because the queue is full leaves no
\* pending entry behind: a pending entry always belongs to an action that is
\* about to be put, queued, or in the worker's hands.
C3_DroppedActionClearsPending ==
  \A s \in Services :
    pending[s] # None =>
      \/ QueuedFor(s) # {}
      \/ wPc # "get" /\ wItem.sid = s
      \/ \E t \in Threads : threads[t].stage = "put" /\ threads[t].svc = s

\* C4: every replica-count write in flight at the orchestrator was issued by
\* the scale worker, and at most one write is in flight at any time.
C4_OnlyWorkerWrites ==
  /\ \A w \in inflight : w.by = "worker" /\ wPc = "write" /\ w.svc = wItem.sid
  /\ Cardinality(inflight) <= 1

\* C4 witness: the worker is writing a service while a pool thread is inside
\* _enqueue_scale for the same service.
C4_Witness ==
  /\ wPc = "write"
  /\ inflight = {[by |-> "worker", svc |-> wItem.sid]}
  /\ \E t \in Threads : threads[t].stage = "put" /\ threads[t].svc = wItem.sid

\* C5: in a tick in which isLeader() answered false, run only sleeps: it is
\* not listing or waiting for evaluations, and no evaluation task of the tick
\* exists that could enqueue a scale action.
C5_NonLeaderTickIdle ==
  tickLeader = "no" => runPc = "sleep10m" /\ ~CurrentTasksLeft

\* C5 witness: a non-leader tick of an instance that led in an earlier tick
\* (an action of that tick is still queued).
C5_Witness ==
  tickLeader = "no" /\ runPc = "sleep10m" /\ scaleQueue # <<>>

\* C6 (as claimed): isLeader() answers true exactly on the manager flagged
\* leader, and at most one instance answers true in a cluster state.
C6_LeaderIffFlaggedManager ==
  /\ \A n \in Nodes :
       cluster.answer[n] # None =>
         (cluster.answer[n] = "true" <=>
            (cluster.nodes[n].manager /\ cluster.leader = n))
  /\ Cardinality({n \in Nodes : cluster.answer[n] = "true"}) <= 1

\* C7: at most one process holds the lock and runs the decision loop, a loop
\* runs only in a process that holds the lock (until its exit handler lets
\* go), and a process whose lock attempt failed runs no loop.
C7_SingletonLoop ==
  /\ Cardinality({p \in Procs : p \in lock.holders /\ lock.loop[p]}) <= 1
  /\ Cardinality(lock.holders) <= 1
  /\ \A p \in Procs : lock.loop[p] => (p \in lock.holders \/ lock.pc[p] = "exiting")
  /\ \A p \in Procs : lock.got[p] = "failed" => ~lock.loop[p]

\* C7 witness: one process runs the loop under the lock while another, whose
\* attempt failed, serves the routes without a loop.
C7_Witness ==
  \E p, q \in Procs :
       /\ p # q
       /\ p \in lock.holders /\ lock.loop[p] /\ lock.pc[p] = "serving"
       /\ lock.got[q] = "failed" /\ lock.pc[q] = "serving" /\ ~lock.loop[q]

\* C8: every replica count scaleService writes lies within the service's
\* [min_replicas, max_replicas].
C8_WriteWithinBounds ==
  (scale.call.done /\ scale.call.res.write) =>
    (scale.svc.min <= scale.call.res.n /\ scale.call.res.n <= scale.svc.max)

\* C8 witness: a write for a service whose replica count had been set by
\* hand outside the bounds.
C8_Witness ==
  /\ scale.call.done /\ scale.call.res.write
  /\ (scale.call.before > scale.svc.max \/ scale.call.before < scale.svc.min)

Dist(a, b) == IF a >= b THEN a - b ELSE b - a

\* C9 (as claimed): every replica count written differs from the count read
\* by at most 1, whatever the bounds, direction and labels.
C9_OneStepAlways ==
  (scale.call.done /\ scale.call.res.write) =>
    Dist(scale.call.res.n, scale.call.before) <= 1

\* C9 (amended): a write differs from the count read by at most 1 unless the
\* disable-manual-replicas label is set and the count read is outside
\* [min, max]; then the write is the bound the stepped count was clamped to.
C9_OneStepUnlessClamped ==
  (scale.call.done /\ scale.call.res.write) =>
    LET v == scale.svc
        inside == v.min <= scale.call.before /\ scale.call.before <= v.max
    IN IF ~v.disableManual \/ inside
         THEN Dist(scale.call.res.n, scale.call.before) = 1
         ELSE scale.call.res.n \in {v.min, v.max}

\* C9 witness: the clamped case, a write more than one step away.
C9_Witness ==
  /\ scale.call.done /\ scale.call.res.write
  /\ scale.svc.disableManual
  /\ Dist(scale.call.res.n, scale.call.before) > 1

\* C10: with autoscale enabled the decision is scale-up exactly when the
\* median is strictly above the high watermark and replicas < max_replicas;
\* a median equal to the high watermark gives no scale-up, and no action at
\* all when the watermarks are well-formed (low < high).
C10_ScaleUpExactly ==
  (decide.out # None /\ decide.in.enabled) =>
    LET i == decide.in IN
    /\ (decide.out = "up") <=>
         (Median2(i.stats) > 2 * i.high /\ i.replicas < i.max)
    /\ Median2(i.stats) = 2 * i.high =>
         (decide.out # "up" /\ (i.low < i.high => decide.out = "none"))

\* C10 witness: the median equals the high watermark, below max_replicas,
\* and the evaluation decided no action.
C10_Witness ==
  /\ decide.out = "none" /\ decide.in.enabled
  /\ Median2(decide.in.stats) = 2 * decide.in.high
  /\ Len(decide.in.stats) = 2 /\ decide.in.stats[1] # decide.in.stats[2]
  /\ decide.in.replicas < decide.in.max

\* The aggregate __scale compares with the low watermark, doubled like Median2.
DownBasis2(stats, mode) == IF mode = "MEDIAN" THEN Median2(stats) ELSE 2 * MaxSeq(stats)

\* C11: with autoscale enabled the decision is scale-down only when the chosen
\* aggregate (median in MEDIAN mode, else the maximum sample) is strictly below
\* the low watermark and replicas > min_replicas, and always then when the
\* watermarks are ordered (low <= high); an aggregate equal to the low
\* watermark, or an aggregate below it on a service at min_replicas, gives no
\* action.
C11_ScaleDownExactly ==
  (decide.out # None /\ decide.in.enabled) =>
    LET i == decide.in
        b == DownBasis2(i.stats, i.mode)
    IN /\ (decide.out = "down") => (b < 2 * i.low /\ i.replicas > i.min)
       /\ (i.low <= i.high /\ b < 2 * i.low /\ i.replicas > i.min) => decide.out = "down"
       /\ i.replicas <= i.min => decide.out # "down"
       /\ (i.low <= i.high /\ b = 2 * i.low) => decide.out = "none"
       /\ (i.low <= i.high /\ b < 2 * i.low /\ i.replicas <= i.min) => decide.out = "none"

\* C11 witness: in MAX mode the maximum equals the low watermark while the
\* median is below it, replicas above min_replicas, and nothing is decided.
C11_Witness ==
  /\ decide.out = "none" /\ decide.in.enabled
  /\ decide.in.mode = "MAX"
  /\ 2 * MaxSeq(decide.in.stats) = 2 * decide.in.low
  /\ Median2(decide.in.stats) < 2 * decide.in.low
  /\ decide.in.replicas > decide.in.min
  /\ decide.in.low < decide.in.high

\* C12: a service whose autoscale label is not enabled never has a scale
\* action pending, queued, being put or in the worker's hands (where audit
\* events are made), never has a write in flight, and keeps its replica count;
\* a threshold crossing leaves only the warning.
C12_DisabledNeverScaled ==
  \A s \in Services :
    ~autoscale[s] =>
      /\ pending[s] = None
      /\ QueuedFor(s) = {}
      /\ wItem.sid # s
      /\ \A t \in Threads : ~(threads[t].stage = "put" /\ threads[t].svc = s)
      /\ \A w \in inflight : w.svc # s
      /\ replicas[s] = 2

\* C12 witness: the disabled service crossed a threshold (the warning is
\* logged) while the enabled service has an action queued.
C12_Witness ==
  \E s \in Services :
    /\ ~autoscale[s] /\ s \in warned
    /\ scaleQueue # <<>>

\* C13 (as claimed): a service whose low watermark is not below its high
\* watermark is skipped: no evaluation of it decides a scale action.
C13_IllFormedWatermarksSkipped ==
  (decide.out # None /\ decide.in.low >= decide.in.high) =>
    decide.out \notin {"up", "down"}

\* C14: scaleService makes at most three attempts, each with its own fresh
\* service reference and at most one write; a further attempt follows only a
\* conflict error ("update out of sequence" / "update in progress"); a
\* success or any other error ends the attempts; after three conflicts the
\* last error is raised.
C14_RetryState ==
  /\ retry.fetches <= MaxAttempts /\ retry.writes <= retry.fetches
  /\ retry.attempts <= MaxAttempts
  /\ retry.pc = "loop" =>
        /\ retry.attempts < MaxAttempts /\ retry.fetches = retry.attempts
        /\ retry.fetches > 0 => retry.lastErr \in {"out_of_sequence", "in_progress"}
  /\ retry.pc \in {"returned", "done_ok"} =>
        /\ retry.replicas = retry.n /\ retry.writes >= 1
        /\ retry.fetches = retry.attempts + 1
  /\ retry.pc \in {"raised", "done_failed"} =>
        IF retry.raised \in {"out_of_sequence", "in_progress"}
          THEN retry.attempts = MaxAttempts /\ retry.fetches = MaxAttempts
               /\ retry.raised = retry.lastErr
          ELSE retry.fetches = retry.attempts + 1

C14_RetryStep ==
  (retry'.fetches > retry.fetches) =>
    /\ retry.pc = "loop"
    /\ retry'.fetches = retry.fetches + 1
    /\ retry'.writes <= retry.writes + 1
    /\ retry.fetches > 0 => retry.lastErr \in {"out_of_sequence", "in_progress"}

C14_RetryProtocol == [](C14_RetryState) /\ [][C14_RetryStep]_vars

\* C14 witness: three conflicts, each on a write, and the last error raised.
C14_Witness ==
  /\ retry.pc = "raised" /\ retry.raised = "in_progress"
  /\ retry.writes = MaxAttempts /\ retry.fetches = MaxAttempts

C16_DryRunNeverWrites ==
  dryRun =>
    /\ inflight = {}
    /\ wPc # "write"
    /\ replicas = [s \in Services |-> 2]

\* C16 witness: under dry-run the worker has run scaleService for an action
\* that passed every test before the write, and went on without writing.
C16_Witness ==
  /\ dryRun /\ wPc = "finally"
  /\ LET L == Labels[wItem.sid]
     IN ScaleService(L.replicated, replicas[wItem.sid], L.min, L.max,
                     L.disableManual, wItem.dir, L.maxPerNode, 1).write

\* C17: when getContainerStats returns, its result is the stat of the peer
\* that answered 200 if there is one, in whatever order the answers arrived,
\* and None if no peer answered 200.
C17_FanoutReturnsHostValue ==
  fanout.pc = "returned" =>
    IF \E q \in Peers : fanout.resp[q].status = "200"
      THEN fanout.result = [some |-> TRUE, body |-> "stat"]
      ELSE fanout.result = NoResult

\* C17 witness: the hosting peer's answer was taken after another peer's
\* empty one, while a third request was still not over.
C17_Witness ==
  /\ fanout.pc = "returned" /\ fanout.result.some
  /\ fanout.skipped >= 1
  /\ fanout.running # {}

\* C18: the answer to GET /api/container/stats is 400 when id is missing,
\* 400 when a metric is given that is neither cpu nor memory, 400 when the
\* metric is cpu (given or by default) and cpuLimit is missing or not a
\* number, 404 when the container does not run on the node, and otherwise
\* 200 with the value under the key of the requested metric.
C18_StatsEndpointStatus ==
  http.done =>
    LET idMissing == http.id \in {None, ""}
        wanted == CASE http.metric \in {None, "", "cpu", "CPU"} -> "cpu"
                    [] http.metric \in {"memory", "Memory"} -> "memory"
                    [] OTHER -> "unsupported"
        badLimit == http.cpuLimit \notin {"0.5", " 2 ", "-1"}
    IN IF idMissing THEN http.out.status = 400
       ELSE IF wanted = "unsupported" THEN http.out.status = 400
       ELSE IF wanted = "cpu" /\ badLimit THEN http.out.status = 400
       ELSE IF ~http.running THEN http.out.status = 404
       ELSE http.out = Answer(200, wanted)

\* C18 witness: a memory request without cpuLimit for a local container is
\* answered 200 under the key "memory".
C18_Witness ==
  /\ http.done /\ http.metric = "Memory" /\ http.cpuLimit = None
  /\ http.out = Answer(200, "memory")

\* ---- C19
ListingFailed == tickListing \in {"error", "raised"}

C19_TickIdle ==
  ListingFailed =>
    /\ runPc \in {"wait", "sleep"}
    /\ ~tickErr
    /\ ~CurrentTasksLeft
    /\ ENABLED (RunWaitDone \/ RunSleep)

C19_TickStep ==
  /\ (runPc = "list" /\ tickListing' = "error") => poolQ' = poolQ
  /\ (ListingFailed /\ tickListing' = tickListing) =>
        /\ poolQ' = poolQ \/ poolQ' = Tail(poolQ)
        /\ \A s \in Services :
             (pending'[s] # pending[s] /\ pending'[s] \in Directions) =>
               \E t \in Threads : /\ threads[t].stage = "run"
                                   /\ threads[t].svc = s
                                   /\ ~threads[t].cur
        /\ Len(scaleQueue') > Len(scaleQueue) =>
               \E t \in Threads : threads[t].stage = "put" /\ ~threads[t].cur

\* C19: when the orchestrator fails at the listing of a tick, the listing is
\* empty (or raises): the tick submits no task, so none of its services is
\* evaluated and no scale action, up or down, is enqueued for it; whatever is
\* enqueued meanwhile comes from a task of an earlier tick; and the control loop
\* is not stopped: it can finish its wait and sleep and go on to the next tick.
C19_ListingFailureTickIdle == [](C19_TickIdle) /\ [][C19_TickStep]_vars

\* The control loop sleeps after a tick whose listing failed at the orchestrator,
\* while an action of an earlier tick is queued and the pool is at rest.
C19_Witness ==
  /\ tickListing = "error"
  /\ runPc = "sleep"
  /\ scaleQueue # <<>>
  /\ poolQ = <<>>
  /\ \A t \in Threads : threads[t].stage = "idle"

\* ---- C20
\* C20: a service on the memory metric with no memory limit available has a
\* memory percentage of 0 in every sample, and its evaluation ends in no action
\* or in a scale-down, never in a scale-up.
C20_NoLimitNeverScalesUp ==
  (mem.impl # None /\ mem.metric = "memory" /\ mem.limit <= 0) =>
    /\ \A i \in 1..Len(mem.pcts) : mem.pcts[i] = 0
    /\ mem.out \in {"none", "down"}

\* The decision loop evaluated a service whose containers use memory and report
\* no limit, and made it a scale-down candidate.
C20_Witness ==
  /\ mem.impl = "loop"
  /\ mem.limit = 0
  /\ \E i \in 1..Len(mem.usages) : mem.usages[i] = 200
  /\ mem.out = "down"

\* ---- C21
\* C21 (as claimed): two scale requests for one service are never issued less
\* than cooldown_sec apart, whatever the interleaving of the polling thread and
\* the requests to /evaluate.
C21_RequestsCooldownApart ==
  \A s \in CoolServices : \A g \in cool.gaps[s] : g >= CooldownSec

\* ---- C22
RECURSIVE ServiceCalls(_)
ServiceCalls(evs) ==
  IF evs = <<>> THEN <<>>
  ELSE IF Head(evs).type = "service"
          /\ Head(evs).action \in {"create", "update", "remove"}
         THEN <<[action |-> Head(evs).action, id |-> Head(evs).id]>> \o ServiceCalls(Tail(evs))
         ELSE ServiceCalls(Tail(evs))

C22_Delivery ==
  /\ watch.pc \in {"connect", "stream", "sleep"}
  /\ watch.calls = ServiceCalls(watch.yielded)

\* C22: watch_events never returns; the calls of the callback are exactly the
\* service create/update/remove events the streams yielded, in their order,
\* before and after any error; and after an error it sleeps and connects again.
C22_WatchNeverReturns ==
  /\ [](C22_Delivery)
  /\ (watch.pc = "sleep" ~> watch.pc = "connect")
  /\ (watch.pc = "connect" ~> watch.pc \in {"stream", "sleep"})

\* After a stream error and the reconnection, a later service event reached
\* the callback, other events having been passed over.
C22_Witness ==
  /\ watch.pc = "stream"
  /\ Len(watch.yielded) = 3
  /\ watch.yielded[2].type = "container"
  /\ watch.callsAtError = 1
  /\ Len(watch.calls) = 2
  /\ watch.calls[2] = [action |-> "remove", id |-> "b"]

\* ---- C23
\* A write of k ends with this step: its retention step has run.
WriteCompletes(k) ==
  /\ store.w[k].pc \in {"count", "delete"}
  /\ store'.w[k].pc = RestPc(k)

EvictedOldest ==
  \A r \in store'.rows : \A e \in store.rows \ store'.rows : e <= r

OtherWriteUnderWay(k) ==
  \E j \in StoreWriters \ {k} : store.w[j].pc \in {"count", "delete"}

Added == 1..(store.next - 1)

OnItsWay ==
  SeqToSet(store.q) \cup UNION {store.w[k].batch : k \in StoreWriters}

\* C24 (as claimed): every event passed to add_scale_event reaches the store:
\* it is stored, or was stored and removed by retention or clear, or is still
\* in the queue or in the hands of a write that will insert it.
C24_EveryEventPersisted ==
  \A e \in Added :
     \/ e \in store.rows \cup store.evicted \cup store.cleared
     \/ e \in OnItsWay /\ e \notin store.dropped

\* ---- C25
C25_ListingsEqual ==
  (Len(registry.lists) = 2 /\ registry.lists[1].snap = registry.lists[2].snap)
    => registry.lists[1].result = registry.lists[2].result

C25_SecondRefresh ==
  (registry.pc = "apply" /\ registry'.pc = "idle" /\ registry.applied = registry.snap)
    => /\ registry'.cache = registry.cache
       /\ registry'.version = registry.version
       /\ registry'.callbacks = registry.callbacks

\* C25: two consecutive listings of an orchestrator in the same state are
\* equal, and a refresh_services over the state the refresh before it listed
\* leaves the services cache and cache_version as they are and does not call
\* the services-changed callback.
C25_DiscoveryIdempotent == [](C25_ListingsEqual) /\ [][C25_SecondRefresh]_vars

\* A refresh filled the cache from a state with a matching service, and the
\* refresh after it, over the same state, changed nothing.
C25_Witness ==
  /\ registry.pc = "idle"
  /\ registry.lastApply = "unchanged"
  /\ registry.version = 1
  /\ registry.callbacks = 1
  /\ registry.cache # <<>>
  /\ Len(registry.lists) = 2
  /\ registry.lists[1].snap = registry.lists[2].snap
  /\ registry.applied = <<registry.lists[2].snap>>

\* ---- C27
Selectable(orch) ==
  {id \in {"a", "b"} : orch[id].label # None /\ LabelLower(orch[id].label) = "true"}

\* C27 (as claimed): every listing, by the adapter of the registry and by
\* getAutoscaleServices, selects exactly the services whose autoscale label
\* exists and equals "true" without regard to case.
C27_SelectedIffLabelTrue ==
  /\ \A i \in 1..Len(registry.lists) :
       registry.lists[i].snap.up =>
         IdsOf(registry.lists[i].result) = Selectable(registry.lists[i].snap.orch)
  /\ \A i \in 1..Len(registry.mono) :
       registry.mono[i].result = Selectable(registry.mono[i].snap.orch)

\* C26: with the disable-manual-replicas label set, a replicated
\* service whose replica count was set outside [min_replicas, max_replicas]
\* is brought back inside the bounds by the evaluation that finds scaling
\* needed (no per-node limit in the way).
C26_BroughtBackByEngine ==
  LET v == scale.svc
      c == scale.call
  IN (/\ c.done /\ c.wanted \in Directions
      /\ v.disableManual /\ v.replicated /\ v.maxPerNode = 0 /\ v.min <= v.max
      /\ (c.before < v.min \/ c.before > v.max))
       => (v.min <= v.replicas /\ v.replicas <= v.max)

\* C28: the worker leaves the processing of an action only through its
\* finally block, whether scaleService wrote, skipped or raised, and when the
\* block is done the pending entry of the action's service is cleared, so
\* that neither direction is a duplicate for _enqueue_scale.
C28_PendingClearedAfterAction ==
  [][/\ (wPc \in {"scale", "write"} /\ wPc' \notin {"scale", "write"}) =>
          (wPc' = "finally" /\ wItem' = wItem)
     /\ (wPc = "finally" /\ wPc' # "finally") =>
          (wPc' = "get" /\ \A d \in Directions : pending'[wItem.sid] # d)]_vars

\* C28 witness: the worker has written a scale-up of a service and is back at
\* get() with nothing queued for the service; a scale-down of the service was
\* accepted afterwards and is about to be put.
C28_Witness ==
  \E s \in Services :
    /\ wPc = "get" /\ QueuedFor(s) = {}
    /\ replicas[s] = 3
    /\ pending[s] = "down"
    /\ \E t \in Threads : threads[t].stage = "put" /\ threads[t].svc = s
                             /\ threads[t].dir = "down"

\* _enqueue_scale accepts an action: a pool thread goes on to put_nowait.
ActionAccepted ==
  \E t \in Threads : threads[t].stage # "put" /\ threads'[t].stage = "put"

\* Nothing queued, nothing pending, no thread inside _enqueue_scale, and the
\* worker polling the empty queue.
Quiescent ==
  /\ scaleQueue = <<>>
  /\ \A s \in Services : pending[s] = None
  /\ \A t \in Threads : threads[t].stage = "idle"
  /\ wPc = "get"

\* C29: under fair scheduling every queued action is eventually taken and
\* processed to the end by the worker, and once no new action is accepted the
\* queue and the pending map become empty for good and the worker polls.
C29_DrainsAndQuiesces ==
  /\ \A s \in Services, d \in Directions :
       (\E i \in 1..Len(scaleQueue) : scaleQueue[i] = [sid |-> s, dir |-> d])
         ~> (wPc = "finally" /\ wItem = [sid |-> s, dir |-> d])
  /\ (<>[][~ActionAccepted]_vars) => <>[]Quiescent

\* Every stats query of the call came back nil or without the metric key.
NoSample(c) ==
  \A i \in 1..Len(c.answers) : c.answers[i].kind \in {"nil", "nokey"}

\* C30: a call of __autoscale on a service without running containers, or
\* whose stats queries all return nil or lack the metric key, ends without
\* computing a median (no __scale) and without enqueuing a scale action; and
\* nothing is computed or enqueued before the call has ended.
C30_SkippedWithoutSamples ==
  /\ (NoContainers(auto.containers) \/ NoSample(auto.containers)) =>
       (auto.stats = <<>> /\ ~auto.scaled /\ auto.enqueued = None)
  /\ auto.pc # "done" => (~auto.scaled /\ auto.enqueued = None)

\* C30 witness: a service running below its minimum (a sample would scale it
\* up) with three containers, one query nil and two without the key; the call
\* has ended without __scale.
C30_Witness ==
  /\ auto.pc = "done" /\ ~auto.scaled
  /\ auto.replicas < DEFAULT_MIN_REPLICAS
  /\ Len(auto.containers.answers) = MaxContainers
  /\ \E i, j \in 1..MaxContainers :
       /\ auto.containers.answers[i].kind = "nil"
       /\ auto.containers.answers[j].kind = "nokey"
  /\ NoSample(auto.containers)

\* The evaluations in the pool: the services waiting and each thread's stage,
\* service and direction.
EvaluationsUnderWay ==
  <<[i \in 1..Len(poolQ) |-> poolQ[i].svc],
    [t \in Threads |-> <<threads[t].stage, threads[t].svc, threads[t].dir>>]>>

\* C31: an evaluation that raises ends alone: the evaluations of the other
\* services, waiting or running, the pending map and the scale queue are left
\* as they are; when run sees the exception it keeps every evaluation still in
\* the pool and goes to its sleep, and from the sleep to the next tick.
C31_ErrorSkipsOneService ==
  [][/\ \A t \in Threads :
          (threads[t].stage = "run" /\ threads'[t].stage = "idle" /\ ~tickErr /\ tickErr') =>
            /\ poolQ' = poolQ
            /\ \A u \in Threads \ {t} : threads'[u] = threads[u]
            /\ pending' = pending /\ scaleQueue' = scaleQueue /\ runPc' = runPc
     /\ (runPc = "wait" /\ tickErr /\ runPc' # "wait") =>
          (runPc' = "sleep" /\ EvaluationsUnderWay' = EvaluationsUnderWay)
     /\ (runPc = "sleep" /\ runPc' # "sleep") =>
          (runPc' = "check" /\ EvaluationsUnderWay' = EvaluationsUnderWay)]_vars

\* C31 witness: the next tick has begun after a tick that ended with an
\* evaluation's exception, and an evaluation of that tick, of another
\* service, has had its action accepted and is about to put it.
C31_Witness ==
  /\ runPc = "check"
  /\ \E t \in Threads : threads[t].stage = "put" /\ ~threads[t].cur

\* C32: the count the worker writes for a queued action is the count of the
\* service at execution time stepped once in the action's direction (or, with
\* the disable-manual-replicas label, that step clamped into the bounds), and
\* lies within the bounds the service has at execution time, whatever count
\* and bounds the decision engine saw; without a write the count stays.
C32_WriteFromCurrentService ==
  [][(scale.queued.state = "queued" /\ scale'.queued.state = "done") =>
       LET v == scale.svc
           c == scale'.call
           stepped == IF c.dir = "up" THEN v.replicas + 1 ELSE v.replicas - 1
       IN /\ c.dir = scale.queued.dir /\ c.before = v.replicas
          /\ IF c.res.write
               THEN /\ scale'.svc.replicas = c.res.n
                    /\ v.min <= c.res.n /\ c.res.n <= v.max
                    /\ c.res.n = (IF v.disableManual
                                    THEN ClampManual(stepped, v.min, v.max)
                                    ELSE stepped)
               ELSE scale'.svc.replicas = v.replicas]_vars

\* C32 witness: the worker wrote a count one step from the current count
\* after the count and the bounds had both changed since the action was
\* enqueued; the step from the count the engine saw would have been another.
C32_Witness ==
  /\ scale.queued.state = "done" /\ scale.call.done /\ scale.call.res.write
  /\ scale.call.dir = "up"
  /\ scale.queued.seen.replicas # scale.call.before
  /\ scale.queued.seen.max < scale.call.res.n
  /\ scale.call.res.n = scale.call.before + 1

C34_NotReplicatedNoWrite ==
  [][(scale.queued.state = "queued" /\ scale'.queued.state = "done"
        /\ ~scale.svc.replicated) =>
       /\ ~scale'.call.res.write /\ scale'.call.done
       /\ scale'.svc = scale.svc
       /\ scale'.pending = None]_vars

\* C34 witness: the worker is done with a scale-up of a service in global
\* mode whose stepped count would have been within the bounds; nothing was
\* written and nothing is pending.
C34_Witness ==
  /\ scale.queued.state = "done" /\ scale.queued.dir = "up"
  /\ ~scale.svc.replicated
  /\ scale.call.done /\ ~scale.call.res.write
  /\ scale.svc.min <= scale.call.before + 1 /\ scale.call.before + 1 <= scale.svc.max
  /\ scale.pending = None

\* C35: a call of get_metrics_from_cadvisor ends with None or with metrics,
\* never with an exception; it ends with None when the request did not answer
\* with status 200, when no container matches the service name, and when no
\* matching container has at least two stat samples.
C35_NoMetricsCases ==
  cadvisor.pc = "done" =>
    /\ cadvisor.out.kind \in {"none", "metrics"}
    /\ (\/ cadvisor.resp # "ok"
        \/ \A i \in 1..Len(cadvisor.tree) : ~cadvisor.tree[i].match
        \/ \A i \in 1..Len(cadvisor.tree) :
             (cadvisor.tree[i].docker /\ cadvisor.tree[i].match) =>
               cadvisor.tree[i].nstats < 2)
         => cadvisor.out.kind = "none"

\* C35 witness: status 200, two containers of the service, one with a single
\* sample and one without any: the call returned None.
C35_Witness ==
  /\ cadvisor.pc = "done" /\ cadvisor.resp = "ok" /\ cadvisor.out.kind = "none"
  /\ Len(cadvisor.service) = 2
  /\ cadvisor.service[1].nstats = 1 /\ cadvisor.service[2].nstats = 0
  /\ ~cadvisor.service[1].malformed

\* The position of the action of service s queued last.
LastQueuedFor(s) == CHOOSE i \in QueuedFor(s) : \A j \in QueuedFor(s) : j <= i

\* C36: whenever an action of a service is in the scale queue (and no thread
\* is between the pending map and put_nowait for the service), the pending
\* entry of the service is set and is the direction of the action of the
\* service queued last.
C36_PendingMatchesQueued ==
  \A s \in Services :
    (/\ QueuedFor(s) # {}
     /\ \A t \in Threads : ~(threads[t].stage = "put" /\ threads[t].svc = s))
      => pending[s] = scaleQueue[LastQueuedFor(s)].dir

\* C37 (as claimed): replica-count writes are issued only while the instance
\* is the leader: in a tick in which isLeader() answered false the scale
\* worker sends no write to the orchestrator (an action queued in an earlier
\* leader tick is not executed any more).
C37_NoWriteWhenNotLeader ==
  [][tickLeader = "no" => ~(wPc = "scale" /\ wPc' = "write")]_vars

\* C38 (as claimed): every scale request evaluate_service sends has
\* to_replicas within [min_replicas, max_replicas] and one step from
\* from_replicas in the direction of the threshold crossed, whatever the
\* current replica count is (outside the bounds included).
C38_RequestOneStepWithinBounds ==
  (mem.impl = "service" /\ mem.payload.sent) =>
    /\ mem.entry.min_replicas <= mem.payload.to_replicas
    /\ mem.payload.to_replicas <= mem.entry.max_replicas
    /\ mem.entry.crossed = "high" =>
         mem.payload.to_replicas = mem.payload.from_replicas + 1
    /\ mem.entry.crossed = "low" =>
         mem.payload.to_replicas = mem.payload.from_replicas - 1

\* C39 (as claimed): a refresh_services whose listing of the orchestrator
\* failed leaves the services cache and cache_version (and last_refresh, set
\* with it) as they are and does not call the services-changed callback: the
\* services discovered before stay in the cache.
C39_FailedListingKeepsCache ==
  [][(registry.pc = "apply" /\ registry'.pc = "idle" /\ ~registry.snap[1].up)
       => /\ registry'.cache = registry.cache
          /\ registry'.version = registry.version
          /\ registry'.callbacks = registry.callbacks]_vars

\* C40 (as claimed): after any writes and clear() calls, list_services()
\* returns exactly the distinct service names that have events in the table
\* at that time (no write being under way); after clear() it no longer
\* returns a service whose events were deleted.
C40_ListServicesIsCurrent ==
  (store.ret.done /\ store.ret.quiet) =>
    store.ret.names = DistinctServices(store.ret.rows)

====
